---------------------------- MODULE Spec2Model ----------------------------
(***************************************************************************)
(* A model of graphinglib/shapes.py: the shape primitives Circle,          *)
(* Rectangle, Arrow, Line and Polygon, their constructors, their           *)
(* coordinate queries, their boolean operations, their transforms and      *)
(* their rendering; of docs/sphinxext/gallery_generator.py, the hook that  *)
(* builds the example gallery of the documentation; and of the polynomial  *)
(* fit that unit_testing/fits_test.py exercises.                           *)
(*                                                                         *)
(* Numbers.  Geometric quantities are integers (exact arithmetic on a      *)
(* grid).  A division by two is taken on even values only and a square     *)
(* root on perfect squares only, so that every value the code computes is  *)
(* a value of the model; the section on Circle in floating point rounds    *)
(* its results instead.  Style values (colours, widths, booleans, the      *)
(* placeholder "default") are strings holding the Python value's repr.     *)
(*                                                                         *)
(* Objects.  heap maps an address to an object, a record of the object's   *)
(* attributes; an object's identity is its address.  call is the last      *)
(* call made: its name, arguments, the exception raised ("none" when it    *)
(* returned) and the value returned.  axes is the log of the calls the     *)
(* last rendering made on the drawing backend.  files is the file system   *)
(* the documentation build works on: a path is mapped to the file's        *)
(* modification time and text.  mutations is the number of mutating calls  *)
(* (transforms, attribute assignments) made so far, which a session keeps  *)
(* below a bound.                                                          *)
(***************************************************************************)
EXTENDS Integers, Sequences, FiniteSets, TLC

VARIABLES heap, call, axes, files, mutations

vars == <<heap, call, axes, files, mutations>>

-----------------------------------------------------------------------------
(* Bounds of the input sets. *)

\* centre and corner coordinates range over -MaxCoord..MaxCoord
MaxCoord == 1
\* radii range over -1..MaxRadius (5 gives the chords 3-4-5)
MaxRadius == 5
\* widths and heights range over -2..MaxSize
MaxSize == 3
\* end points of arrows and lines are ShrinkDen * (-MaxArrow..MaxArrow)
MaxArrow == 1
\* shrink fractions are k / ShrinkDen, k in 0..ShrinkDen
ShrinkDen == 2
\* polygons are the rectangles with corners on the grid 0..MaxGrid
MaxGrid == 3

Coords == -MaxCoord..MaxCoord
Radii == -1..MaxRadius
Sizes == -2..MaxSize
EvenSizes == {w \in Sizes : w % 2 = 0}
ArrowCoords == {ShrinkDen * k : k \in -MaxArrow..MaxArrow}
ZOrders == {1}
\* the values a circle is queried at reach past every circle
QueryCoords == (-MaxCoord - MaxRadius - 1)..(MaxCoord + MaxRadius + 1)
\* the points tested for containment lie inside, on and outside the shapes
ContainCoords == QueryCoords
ContainPoints == {[cls |-> "Point", x |-> x, y |-> y] :
                     x \in ContainCoords, y \in ContainCoords}

Abs(n) == IF n < 0 THEN -n ELSE n
Min(a, b) == IF a <= b THEN a ELSE b
IsSquare(n) == n >= 0 /\ \E k \in 0..n : k * k = n
\* np.sqrt on a perfect square
Sqrt(n) == CHOOSE k \in 0..n : k * k = n
\* width / 2 on an even value
Half(n) == n \div 2

NoAddr == 0
\* a session starts with the construction of its shape: nothing was called
\* and no object is bound yet
Unbound == DOMAIN heap = {} /\ call.op = "none"
NoCall == [op |-> "none", args |-> <<>>, exc |-> "none", msg |-> "", ret |-> <<>>]
Returned(op, args, ret) ==
    [op |-> op, args |-> args, exc |-> "none", msg |-> "", ret |-> ret]
Raised(op, args, exc, msg, ret) ==
    [op |-> op, args |-> args, exc |-> exc, msg |-> msg, ret |-> ret]

Point(x, y) == [cls |-> "Point", x |-> x, y |-> y]
Points == {Point(x, y) : x \in Coords, y \in Coords}

\* bool(v) of a style value
Truthy(v) == v \notin {"False", "None", "", "0"}

\* {k: v for k, v in params.items() if v != "default"}
DropDefault(params) ==
    [k \in {j \in DOMAIN params : params[j] /= "default"} |-> params[k]]
\* {k: v for k, v in params.items() if v != None}
DropNone(params) ==
    [k \in {j \in DOMAIN params : params[j] /= "None"} |-> params[k]]

BackendCall(fn, data, zorder, kw) ==
    [fn |-> fn, data |-> data, zorder |-> zorder, kw |-> kw]

-----------------------------------------------------------------------------
(* Circle *)

\* the style bundles a shape with (fill, color, line_width, line_style,
\* fill_alpha) is constructed with
ShapeStyles ==
    {[fill |-> f, color |-> c[1], line_width |-> c[2], line_style |-> c[3],
      fill_alpha |-> c[4]] :
        f \in {"default", "True", "False"},
        c \in {<<"default", "default", "default", "default">>,
               <<"red", "2", "--", "0.5">>}}

CircleInvalid_Strict(radius) == radius < 0
\* Circle.__post_init__: the condition that raises
CircleInvalid(radius) == radius <= 0

CircleObject(x, y, r, style) ==
    [cls |-> "Circle", x_center |-> x, y_center |-> y, radius |-> r,
     fill |-> style.fill, color |-> style.color,
     line_width |-> style.line_width, line_style |-> style.line_style,
     fill_alpha |-> style.fill_alpha]

\* c = Circle(x, y, r, ...): the dataclass __init__ followed by __post_init__
CircleNew(x, y, r, style) ==
    /\ Unbound
    /\ UNCHANGED <<files, mutations>>
    /\ axes' = axes
    /\ IF CircleInvalid(r)
         THEN /\ call' = Raised("Circle", <<x, y, r>>, "ValueError",
                                "The radius must be positive", NoAddr)
              /\ heap' = heap
         ELSE /\ heap' = (1 :> CircleObject(x, y, r, style))
              /\ call' = Returned("Circle", <<x, y, r>>, 1)

IsCircle(a) == a \in DOMAIN heap /\ heap[a].cls = "Circle"

CircleOutOfRangeX(c, x) == x < c.x_center - c.radius \/ x > c.x_center + c.radius
CircleOutOfRangeY(c, y) == y < c.y_center - c.radius \/ y > c.y_center + c.radius

\* a query is made at every out-of-range value next to the circle and at
\* every in-range value whose root is exact
CircleQueryX(c, x) ==
    /\ c.x_center - c.radius - 1 <= x /\ x <= c.x_center + c.radius + 1
    /\ \/ CircleOutOfRangeX(c, x)
       \/ IsSquare(c.radius * c.radius - (x - c.x_center) * (x - c.x_center))
CircleQueryY(c, y) ==
    /\ c.y_center - c.radius - 1 <= y /\ y <= c.y_center + c.radius + 1
    /\ \/ CircleOutOfRangeY(c, y)
       \/ IsSquare(c.radius * c.radius - (y - c.y_center) * (y - c.y_center))

\* Circle.get_coordinates_at_x after the range check
CircleCoordinatesAtX(c, x) ==
    LET y == Sqrt(c.radius * c.radius - (x - c.x_center) * (x - c.x_center))
    IN  IF y = 0 THEN << <<x, y>> >> ELSE << <<x, y>>, <<x, -y>> >>

\* Circle.get_coordinates_at_y after the range check
CircleCoordinatesAtY(c, y) ==
    LET x == Sqrt(c.radius * c.radius - (y - c.y_center) * (y - c.y_center))
    IN  IF x = 0 THEN << <<x, y>> >> ELSE << <<x, y>>, <<-x, y>> >>

\* Circle.create_points_at_x after the range check
CirclePointsAtX(c, x) ==
    LET y == Sqrt(c.radius * c.radius - (x - c.x_center) * (x - c.x_center))
    IN  IF y = 0 THEN <<Point(x, y)>> ELSE <<Point(x, y), Point(x, -y)>>

\* Circle.create_points_at_y after the range check
CirclePointsAtY(c, y) ==
    LET x == Sqrt(c.radius * c.radius - (y - c.y_center) * (y - c.y_center))
    IN  IF x = 0 THEN <<Point(x, y)>> ELSE <<Point(x, y), Point(-x, y)>>

\* the f-string of the error message, kept as its parts
CircleXRangeMsg(c) ==
    <<"x must be between ", c.x_center - c.radius, " and ", c.x_center + c.radius>>
CircleYRangeMsg(c) ==
    <<"y must be between ", c.y_center - c.radius, " and ", c.y_center + c.radius>>

CircleGetCoordinatesAtX(x) ==
    /\ IsCircle(1)
    /\ UNCHANGED <<files, mutations>>
    /\ CircleQueryX(heap[1], x)
    /\ UNCHANGED <<heap, axes>>
    /\ call' = IF CircleOutOfRangeX(heap[1], x)
                 THEN Raised("Circle.get_coordinates_at_x", <<x>>, "ValueError",
                             CircleXRangeMsg(heap[1]), <<>>)
                 ELSE Returned("Circle.get_coordinates_at_x", <<x>>,
                               CircleCoordinatesAtX(heap[1], x))

CircleCreatePointsAtX(x) ==
    /\ IsCircle(1)
    /\ UNCHANGED <<files, mutations>>
    /\ CircleQueryX(heap[1], x)
    /\ UNCHANGED <<heap, axes>>
    /\ call' = IF CircleOutOfRangeX(heap[1], x)
                 THEN Raised("Circle.create_points_at_x", <<x>>, "ValueError",
                             CircleXRangeMsg(heap[1]), <<>>)
                 ELSE Returned("Circle.create_points_at_x", <<x>>,
                               CirclePointsAtX(heap[1], x))

CircleGetCoordinatesAtY(y) ==
    /\ IsCircle(1)
    /\ UNCHANGED <<files, mutations>>
    /\ CircleQueryY(heap[1], y)
    /\ UNCHANGED <<heap, axes>>
    /\ call' = IF CircleOutOfRangeY(heap[1], y)
                 THEN Raised("Circle.get_coordinates_at_y", <<y>>, "ValueError",
                             CircleYRangeMsg(heap[1]), <<>>)
                 ELSE Returned("Circle.get_coordinates_at_y", <<y>>,
                               CircleCoordinatesAtY(heap[1], y))

CircleCreatePointsAtY(y) ==
    /\ IsCircle(1)
    /\ UNCHANGED <<files, mutations>>
    /\ CircleQueryY(heap[1], y)
    /\ UNCHANGED <<heap, axes>>
    /\ call' = IF CircleOutOfRangeY(heap[1], y)
                 THEN Raised("Circle.create_points_at_y", <<y>>, "ValueError",
                             CircleYRangeMsg(heap[1]), <<>>)
                 ELSE Returned("Circle.create_points_at_y", <<y>>,
                               CirclePointsAtY(heap[1], y))

\* the backend calls of Circle._plot_element; the 100 sampled points are
\* recorded by the centre and radius they are computed from
CircleBackendCalls(c, z) ==
    LET data == <<c.x_center, c.y_center, c.radius>>
        line == BackendCall("plot", data, z,
                    DropDefault([color |-> c.color, linewidth |-> c.line_width,
                                 linestyle |-> c.line_style]))
        fill == BackendCall("fill_between", data, z,
                    DropDefault([alpha |-> c.fill_alpha, facecolor |-> c.color]))
    IN  IF Truthy(c.fill) THEN <<line, fill>> ELSE <<line>>

CirclePlotElement(z) ==
    /\ IsCircle(1)
    /\ UNCHANGED <<files, mutations>>
    /\ axes' = CircleBackendCalls(heap[1], z)
    /\ heap' = heap
    /\ call' = Returned("Circle._plot_element", <<z>>, <<>>)

\* a multiple of np.pi, kept as its factors
PiTimes(k) == <<k, "*", "pi">>

CircleArea_Diameter(c) == PiTimes(2 * c.radius * c.radius)
\* Circle.get_area: np.pi * self.radius**2
CircleArea(c) == PiTimes(c.radius * c.radius)
\* Circle.get_circumference: 2 * np.pi * self.radius
CircleCircumference(c) == PiTimes(2 * c.radius)

CircleGetArea ==
    /\ IsCircle(1)
    /\ UNCHANGED <<heap, axes, files, mutations>>
    /\ call' = Returned("Circle.get_area", <<>>, CircleArea(heap[1]))

CircleGetCircumference ==
    /\ IsCircle(1)
    /\ UNCHANGED <<heap, axes, files, mutations>>
    /\ call' = Returned("Circle.get_circumference", <<>>,
                        CircleCircumference(heap[1]))

CircleContains_Open(c, point) ==
    (point.x - c.x_center) * (point.x - c.x_center)
        + (point.y - c.y_center) * (point.y - c.y_center) < c.radius * c.radius
\* Circle.__contains__
CircleContains(c, point) ==
    (point.x - c.x_center) * (point.x - c.x_center)
        + (point.y - c.y_center) * (point.y - c.y_center) <= c.radius * c.radius

\* point in circle
CircleContainsPoint(point) ==
    /\ IsCircle(1)
    /\ UNCHANGED <<heap, axes, files, mutations>>
    /\ call' = Returned("Circle.__contains__", <<point>>,
                        CircleContains(heap[1], point))

CircleGetCenterCoordinates ==
    /\ IsCircle(1)
    /\ UNCHANGED <<heap, axes, files, mutations>>
    /\ call' = Returned("Circle.get_center_coordinates", <<>>,
                        <<heap[1].x_center, heap[1].y_center>>)

CircleCreateCenterPoint ==
    /\ IsCircle(1)
    /\ UNCHANGED <<heap, axes, files, mutations>>
    /\ call' = Returned("Circle.create_center_point", <<>>,
                        Point(heap[1].x_center, heap[1].y_center))

-----------------------------------------------------------------------------
(* Rectangle *)

RectangleInvalid_WidthOnly(width, height) == width <= 0
\* Rectangle.__post_init__: the condition that raises
RectangleInvalid(width, height) == width <= 0 \/ height <= 0

\* Rectangle.__post_init__: the message of the error raised
RectangleInvalidMsg(width, height) ==
    IF width <= 0 THEN "The width must be positive"
                  ELSE "The height must be positive"

RectangleObject(x, y, w, h, style) ==
    [cls |-> "Rectangle", x_bottom_left |-> x, y_bottom_left |-> y,
     width |-> w, height |-> h,
     fill |-> style.fill, color |-> style.color,
     line_width |-> style.line_width, line_style |-> style.line_style,
     fill_alpha |-> style.fill_alpha]

\* the dataclass __init__ alone
RectangleInit_Unchecked(op, args, x, y, w, h, style) ==
    /\ Unbound
    /\ UNCHANGED <<axes, files, mutations>>
    /\ heap' = (1 :> RectangleObject(x, y, w, h, style))
    /\ call' = Returned(op, args, 1)

\* cls(x, y, w, h, ...) called as op: the dataclass __init__ followed by
\* __post_init__
RectangleInit(op, args, x, y, w, h, style) ==
    /\ Unbound
    /\ UNCHANGED <<files, mutations>>
    /\ axes' = axes
    /\ IF RectangleInvalid(w, h)
         THEN /\ call' = Raised(op, args, "ValueError",
                                RectangleInvalidMsg(w, h), NoAddr)
              /\ heap' = heap
         ELSE /\ heap' = (1 :> RectangleObject(x, y, w, h, style))
              /\ call' = Returned(op, args, 1)

RectangleNew(x, y, w, h, style) ==
    RectangleInit("Rectangle", <<x, y, w, h>>, x, y, w, h, style)

\* Rectangle.from_center; width and height are even, so that width / 2 and
\* height / 2 are exact
RectangleFromCenter(x, y, w, h, style) ==
    RectangleInit("Rectangle.from_center", <<x, y, w, h>>,
                  x - Half(w), y - Half(h), w, h, style)

FromPointsRejects_Ordered(point1, point2) ==
    point1.x <= point2.x \/ point1.y <= point2.y
\* Rectangle.from_points: the condition that raises
FromPointsRejects(point1, point2) ==
    point1.x = point2.x \/ point1.y = point2.y

FromPointsFields_FirstPoint(point1, point2) ==
    <<point1.x, point1.y, Abs(point1.x - point2.x), Abs(point1.y - point2.y)>>
\* Rectangle.from_points: the positional arguments handed to cls
FromPointsFields(point1, point2) ==
    <<Min(point1.x, point2.x), Min(point1.y, point2.y),
      Abs(point1.x - point2.x), Abs(point1.y - point2.y)>>

RectangleFromPoints(point1, point2, style) ==
    IF FromPointsRejects(point1, point2)
      THEN /\ Unbound
           /\ UNCHANGED <<files, mutations>>
           /\ call' = Raised("Rectangle.from_points", <<point1, point2>>,
                             "ValueError",
                             "The points must not be on the same line", NoAddr)
           /\ UNCHANGED <<heap, axes>>
      ELSE LET f == FromPointsFields(point1, point2)
           IN  RectangleInit("Rectangle.from_points", <<point1, point2>>,
                             f[1], f[2], f[3], f[4], style)

IsRectangle(a) == a \in DOMAIN heap /\ heap[a].cls = "Rectangle"

\* Rectangle.__contains__
RectangleContains(r, point) ==
    /\ r.x_bottom_left <= point.x /\ point.x <= r.x_bottom_left + r.width
    /\ r.y_bottom_left <= point.y /\ point.y <= r.y_bottom_left + r.height

\* point in rectangle
RectangleContainsPoint(point) ==
    /\ IsRectangle(1)
    /\ UNCHANGED <<heap, axes, files, mutations>>
    /\ call' = Returned("Rectangle.__contains__", <<point>>,
                        RectangleContains(heap[1], point))

\* Rectangle.get_center_coordinates, create_center_point: the centre, of a
\* rectangle of even width and height
RectangleCenter(r) ==
    <<r.x_bottom_left + Half(r.width), r.y_bottom_left + Half(r.height)>>

HasEvenSides(r) == r.width % 2 = 0 /\ r.height % 2 = 0

RectangleGetCenterCoordinates ==
    /\ IsRectangle(1)
    /\ HasEvenSides(heap[1])
    /\ UNCHANGED <<heap, axes, files, mutations>>
    /\ call' = Returned("Rectangle.get_center_coordinates", <<>>,
                        RectangleCenter(heap[1]))

RectangleCreateCenterPoint ==
    /\ IsRectangle(1)
    /\ HasEvenSides(heap[1])
    /\ UNCHANGED <<heap, axes, files, mutations>>
    /\ call' = Returned("Rectangle.create_center_point", <<>>,
                        Point(RectangleCenter(heap[1])[1],
                              RectangleCenter(heap[1])[2]))

\* the backend calls of Rectangle._plot_element
RectangleBackendCalls(r, z) ==
    LET xs == <<r.x_bottom_left, r.x_bottom_left + r.width,
                r.x_bottom_left + r.width, r.x_bottom_left, r.x_bottom_left>>
        ys == <<r.y_bottom_left, r.y_bottom_left, r.y_bottom_left + r.height,
                r.y_bottom_left + r.height, r.y_bottom_left>>
        line == BackendCall("plot", <<xs, ys>>, z,
                    DropDefault([color |-> r.color, linewidth |-> r.line_width,
                                 linestyle |-> r.line_style]))
        fill == BackendCall("fill_between", <<xs, ys>>, z,
                    DropNone([alpha |-> r.fill_alpha, facecolor |-> r.color]))
    IN  IF Truthy(r.fill) THEN <<line, fill>> ELSE <<line>>

RectanglePlotElement(z) ==
    /\ IsRectangle(1)
    /\ UNCHANGED <<files, mutations>>
    /\ axes' = RectangleBackendCalls(heap[1], z)
    /\ heap' = heap
    /\ call' = Returned("Rectangle._plot_element", <<z>>, <<>>)

RectangleOutOfRangeX_Closed(r, x) ==
    x < r.x_bottom_left \/ x > r.x_bottom_left + r.width
\* Rectangle.get_coordinates_at_x, create_points_at_x: the condition that
\* raises
RectangleOutOfRangeX(r, x) ==
    x <= r.x_bottom_left \/ x >= r.x_bottom_left + r.width
\* Rectangle.get_coordinates_at_y, create_points_at_y: the condition that
\* raises
RectangleOutOfRangeY(r, y) ==
    y <= r.y_bottom_left \/ y >= r.y_bottom_left + r.height

\* a query is made at every value from one below the rectangle to one above
RectangleQueryX(r, x) ==
    r.x_bottom_left - 1 <= x /\ x <= r.x_bottom_left + r.width + 1
RectangleQueryY(r, y) ==
    r.y_bottom_left - 1 <= y /\ y <= r.y_bottom_left + r.height + 1

\* the f-string of the error message, kept as its parts
RectangleXRangeMsg(r) ==
    <<"x must be between ", r.x_bottom_left, " and ", r.x_bottom_left + r.width>>
RectangleYRangeMsg(r) ==
    <<"y must be between ", r.y_bottom_left, " and ", r.y_bottom_left + r.height>>

\* Rectangle.get_coordinates_at_x after the range check
RectangleCoordinatesAtX(r, x) ==
    << <<x, r.y_bottom_left>>, <<x, r.y_bottom_left + r.height>> >>
\* Rectangle.create_points_at_x after the range check
RectanglePointsAtX(r, x) ==
    <<Point(x, r.y_bottom_left), Point(x, r.y_bottom_left + r.height)>>
\* Rectangle.get_coordinates_at_y after the range check
RectangleCoordinatesAtY(r, y) ==
    << <<r.x_bottom_left, y>>, <<r.x_bottom_left + r.width, y>> >>
\* Rectangle.create_points_at_y after the range check
RectanglePointsAtY(r, y) ==
    <<Point(r.x_bottom_left, y), Point(r.x_bottom_left + r.width, y)>>

RectangleGetCoordinatesAtX(x) ==
    /\ IsRectangle(1)
    /\ RectangleQueryX(heap[1], x)
    /\ UNCHANGED <<heap, axes, files, mutations>>
    /\ call' = IF RectangleOutOfRangeX(heap[1], x)
                 THEN Raised("Rectangle.get_coordinates_at_x", <<x>>,
                             "ValueError", RectangleXRangeMsg(heap[1]), <<>>)
                 ELSE Returned("Rectangle.get_coordinates_at_x", <<x>>,
                               RectangleCoordinatesAtX(heap[1], x))

RectangleCreatePointsAtX(x) ==
    /\ IsRectangle(1)
    /\ RectangleQueryX(heap[1], x)
    /\ UNCHANGED <<heap, axes, files, mutations>>
    /\ call' = IF RectangleOutOfRangeX(heap[1], x)
                 THEN Raised("Rectangle.create_points_at_x", <<x>>,
                             "ValueError", RectangleXRangeMsg(heap[1]), <<>>)
                 ELSE Returned("Rectangle.create_points_at_x", <<x>>,
                               RectanglePointsAtX(heap[1], x))

RectangleGetCoordinatesAtY(y) ==
    /\ IsRectangle(1)
    /\ RectangleQueryY(heap[1], y)
    /\ UNCHANGED <<heap, axes, files, mutations>>
    /\ call' = IF RectangleOutOfRangeY(heap[1], y)
                 THEN Raised("Rectangle.get_coordinates_at_y", <<y>>,
                             "ValueError", RectangleYRangeMsg(heap[1]), <<>>)
                 ELSE Returned("Rectangle.get_coordinates_at_y", <<y>>,
                               RectangleCoordinatesAtY(heap[1], y))

RectangleCreatePointsAtY(y) ==
    /\ IsRectangle(1)
    /\ RectangleQueryY(heap[1], y)
    /\ UNCHANGED <<heap, axes, files, mutations>>
    /\ call' = IF RectangleOutOfRangeY(heap[1], y)
                 THEN Raised("Rectangle.create_points_at_y", <<y>>,
                             "ValueError", RectangleYRangeMsg(heap[1]), <<>>)
                 ELSE Returned("Rectangle.create_points_at_y", <<y>>,
                               RectanglePointsAtY(heap[1], y))

\* Rectangle.get_area
RectangleArea(r) == r.width * r.height
\* Rectangle.get_perimeter
RectanglePerimeter(r) == 2 * (r.width + r.height)

RectangleGetArea ==
    /\ IsRectangle(1)
    /\ UNCHANGED <<heap, axes, files, mutations>>
    /\ call' = Returned("Rectangle.get_area", <<>>, RectangleArea(heap[1]))

RectangleGetPerimeter ==
    /\ IsRectangle(1)
    /\ UNCHANGED <<heap, axes, files, mutations>>
    /\ call' = Returned("Rectangle.get_perimeter", <<>>,
                        RectanglePerimeter(heap[1]))

-----------------------------------------------------------------------------
(* Arrow and Line *)

ArrowPoints == {<<x, y>> : x \in ArrowCoords, y \in ArrowCoords}
\* (color, width) of an arrow or a line
StrokeStyles == {<<"default", "default">>, <<"red", "2">>}
\* head_size of an arrow, cap_width of a line
HeadSizes == {"default", "1"}
\* shrink = k / ShrinkDen
Shrinks == 0..ShrinkDen

\* the float product v * k of a numeric style value, kept as its factors
Times(v, k) == <<v, "*", k>>
\* the float quotient v / 2 of a numeric style value
Over2(v) == <<v, "/", "2">>

ArrowObject(a, b, stroke, head_size, shrink, two_sided) ==
    [cls |-> "Arrow", pointA |-> a, pointB |-> b, color |-> stroke[1],
     width |-> stroke[2], head_size |-> head_size, shrink |-> shrink,
     two_sided |-> two_sided]

\* Arrow(pointA, pointB, ...): the dataclass __init__ (no validation)
ArrowNew(a, b, stroke, head_size, shrink, two_sided) ==
    /\ Unbound
    /\ UNCHANGED <<files, mutations>>
    /\ heap' = (1 :> ArrowObject(a, b, stroke, head_size, shrink, two_sided))
    /\ call' = Returned("Arrow", <<a, b>>, 1)
    /\ axes' = axes

IsArrow(a) == a \in DOMAIN heap /\ heap[a].cls = "Arrow"

ArrowShrinkPoints_KeepsFraction(o) ==
    LET x_length == o.pointA[1] - o.pointB[1]
        y_length == o.pointA[2] - o.pointB[2]
        keep(len) == (o.shrink * len) \div ShrinkDen
    IN  << <<o.pointB[1] + keep(x_length), o.pointB[2] + keep(y_length)>>,
           <<o.pointA[1] - keep(x_length), o.pointA[2] - keep(y_length)>> >>

\* Arrow._shrink_points, (1 - shrink) * length computed exactly
ArrowShrinkPoints(o) ==
    LET x_length == o.pointA[1] - o.pointB[1]
        y_length == o.pointA[2] - o.pointB[2]
        keep(len) == ((ShrinkDen - o.shrink) * len) \div ShrinkDen
    IN  << <<o.pointB[1] + keep(x_length), o.pointB[2] + keep(y_length)>>,
           <<o.pointA[1] - keep(x_length), o.pointA[2] - keep(y_length)>> >>

\* arrow._shrink_points()
ArrowShrinkPointsCall ==
    /\ IsArrow(1)
    /\ UNCHANGED <<heap, axes, files, mutations>>
    /\ call' = Returned("Arrow._shrink_points", <<>>, ArrowShrinkPoints(heap[1]))

\* Arrow._plot_element: the arrow style it selects
ArrowStyle(o) == IF o.two_sided THEN "<|-|>" ELSE "-|>"

\* Arrow._plot_element: the arrow after `self._style = ...`
ArrowAfterPlot(o) == ("_style" :> ArrowStyle(o)) @@ o

\* Arrow._plot_element: the annotate call
ArrowBackendCalls(o, z) ==
    LET props == [arrowstyle |-> <<ArrowStyle(o), Times(o.head_size, "0.2"),
                                   Times(o.head_size, "0.4")>>,
                  color |-> o.color, linewidth |-> o.width]
        ends == IF o.shrink /= 0
                  THEN <<ArrowShrinkPoints(o)[2], ArrowShrinkPoints(o)[1]>>
                  ELSE <<o.pointB, o.pointA>>
    IN  <<BackendCall("annotate", ends, z, [arrowprops |-> props])>>

\* Arrow._plot_element; "default" * 0.4 is a TypeError, raised after _style
\* is set
ArrowPlotElement(z) ==
    /\ IsArrow(1)
    /\ UNCHANGED <<files, mutations>>
    /\ heap' = [heap EXCEPT ![1] = ArrowAfterPlot(@)]
    /\ IF heap[1].head_size = "default"
         THEN /\ call' = Raised("Arrow._plot_element", <<z>>, "TypeError",
                                "can't multiply sequence by non-int of type 'float'",
                                <<>>)
              /\ axes' = <<>>
         ELSE /\ call' = Returned("Arrow._plot_element", <<z>>, <<>>)
              /\ axes' = ArrowBackendCalls(heap[1], z)

LineObject(a, b, stroke, capped_line, cap_width) ==
    [cls |-> "Line", pointA |-> a, pointB |-> b, color |-> stroke[1],
     width |-> stroke[2], capped_line |-> capped_line, cap_width |-> cap_width]

\* Line(pointA, pointB, ...): the dataclass __init__ (no validation)
LineNew(a, b, stroke, capped_line, cap_width) ==
    /\ Unbound
    /\ UNCHANGED <<files, mutations>>
    /\ heap' = (1 :> LineObject(a, b, stroke, capped_line, cap_width))
    /\ call' = Returned("Line", <<a, b>>, 1)
    /\ axes' = axes

IsLine(a) == a \in DOMAIN heap /\ heap[a].cls = "Line"

\* Line._plot_element: the annotate call
LineBackendCalls(o, z) ==
    LET style == IF o.capped_line
                   THEN <<"|-|", Over2(o.cap_width), Over2(o.cap_width)>>
                   ELSE <<"-">>
        props == [arrowstyle |-> style, color |-> o.color, linewidth |-> o.width]
    IN  <<BackendCall("annotate", <<o.pointA, o.pointB>>, z,
                      [arrowprops |-> props])>>

\* Line._plot_element; "default" / 2 is a TypeError
LinePlotElement(z) ==
    /\ IsLine(1)
    /\ UNCHANGED <<files, mutations>>
    /\ heap' = heap
    /\ IF heap[1].capped_line /\ heap[1].cap_width = "default"
         THEN /\ call' = Raised("Line._plot_element", <<z>>, "TypeError",
                                "unsupported operand type(s) for /: 'str' and 'int'",
                                <<>>)
              /\ axes' = <<>>
         ELSE /\ call' = Returned("Line._plot_element", <<z>>, <<>>)
              /\ axes' = LineBackendCalls(heap[1], z)

-----------------------------------------------------------------------------
(* The shapes built from numbers: one variable holds the shape (address 1); *)
(* it is bound by a constructor and then queried and rendered.              *)

Init ==
    /\ heap = <<>>
    /\ call = NoCall
    /\ axes = <<>>
    /\ files = <<>>
    /\ mutations = 0

Next ==
    \/ Unbound /\ \E x \in Coords, y \in Coords, r \in Radii,
                     style \in ShapeStyles : CircleNew(x, y, r, style)
    \/ \E x \in QueryCoords : CircleGetCoordinatesAtX(x)
    \/ \E x \in QueryCoords : CircleCreatePointsAtX(x)
    \/ \E y \in QueryCoords : CircleGetCoordinatesAtY(y)
    \/ \E y \in QueryCoords : CircleCreatePointsAtY(y)
    \/ \E z \in ZOrders : CirclePlotElement(z)
    \/ CircleGetArea
    \/ CircleGetCircumference
    \/ Unbound /\ \E x \in Coords, y \in Coords, w \in Sizes, h \in Sizes,
                     style \in ShapeStyles : RectangleNew(x, y, w, h, style)
    \/ Unbound /\ \E x \in Coords, y \in Coords, w \in EvenSizes,
                     h \in EvenSizes, style \in ShapeStyles :
                     RectangleFromCenter(x, y, w, h, style)
    \/ Unbound /\ \E point1 \in Points, point2 \in Points,
                     style \in ShapeStyles :
                     RectangleFromPoints(point1, point2, style)
    \/ \E x \in QueryCoords : RectangleGetCoordinatesAtX(x)
    \/ \E x \in QueryCoords : RectangleCreatePointsAtX(x)
    \/ \E y \in QueryCoords : RectangleGetCoordinatesAtY(y)
    \/ \E y \in QueryCoords : RectangleCreatePointsAtY(y)
    \/ RectangleGetArea
    \/ RectangleGetPerimeter
    \/ \E z \in ZOrders : RectanglePlotElement(z)
    \/ Unbound /\ \E a \in ArrowPoints, b \in ArrowPoints,
                     stroke \in StrokeStyles, head_size \in HeadSizes,
                     shrink \in Shrinks, two_sided \in BOOLEAN :
                     ArrowNew(a, b, stroke, head_size, shrink, two_sided)
    \/ \E z \in ZOrders : ArrowPlotElement(z)
    \/ ArrowShrinkPointsCall
    \/ Unbound /\ \E a \in ArrowPoints, b \in ArrowPoints,
                     stroke \in StrokeStyles, capped_line \in BOOLEAN,
                     cap_width \in HeadSizes :
                     LineNew(a, b, stroke, capped_line, cap_width)
    \/ \E z \in ZOrders : LinePlotElement(z)

Spec == Init /\ [][Next]_vars

\* the calls that construct a Circle or a Rectangle
Constructors == {"Circle", "Rectangle", "Rectangle.from_center",
                 "Rectangle.from_points"}

\* a session of containment: a circle or a rectangle is constructed, then one
\* test or one query of the centre is made
NextContain ==
    \/ Unbound /\ \E x \in Coords, y \in Coords, r \in Radii,
                     style \in ShapeStyles : CircleNew(x, y, r, style)
    \/ Unbound /\ \E x \in Coords, y \in Coords, w \in Sizes, h \in Sizes,
                     style \in ShapeStyles : RectangleNew(x, y, w, h, style)
    \/ Unbound /\ \E x \in Coords, y \in Coords, w \in EvenSizes,
                     h \in EvenSizes, style \in ShapeStyles :
                     RectangleFromCenter(x, y, w, h, style)
    \/ Unbound /\ \E point1 \in Points, point2 \in Points,
                     style \in ShapeStyles :
                     RectangleFromPoints(point1, point2, style)
    \/ call.op \in Constructors /\ \E point \in ContainPoints :
                     CircleContainsPoint(point)
    \/ call.op \in Constructors /\ CircleGetCenterCoordinates
    \/ call.op \in Constructors /\ CircleCreateCenterPoint
    \/ call.op \in Constructors /\ \E point \in ContainPoints :
                     RectangleContainsPoint(point)
    \/ call.op \in Constructors /\ RectangleGetCenterCoordinates
    \/ call.op \in Constructors /\ RectangleCreateCenterPoint

SpecContain == Init /\ [][NextContain]_vars

-----------------------------------------------------------------------------
(* The planar geometry behind a Polygon (shapely).                          *)
(*                                                                          *)
(* The plane is the grid 0..MaxGrid squared, cut into its cells, edges and  *)
(* vertices: the element <<i, j>> with i, j in -1..2*MaxGrid+1 is the       *)
(* vertex (i/2, j/2) when both are even, an open unit cell when both are    *)
(* odd and an open unit edge otherwise; the elements at -1 and 2*MaxGrid+1  *)
(* are the surroundings of the grid.  A closed point set is the set of the  *)
(* elements it is made of, a geometry is its type and its point set, and a  *)
(* coordinate list (a ring) is the closed curve through its points.         *)

GridRange == -1..(2 * MaxGrid + 1)
GridElems == GridRange \X GridRange
Surroundings == <<-1, -1>>
\* the grid without its surroundings
GridArea == (0..(2 * MaxGrid)) \X (0..(2 * MaxGrid))

IsCell(e) == e[1] % 2 = 1 /\ e[2] % 2 = 1
CellsOf(S) == {e \in S : IsCell(e)}
\* the elements next to e across one side
Nbrs4(e) == {<<e[1] - 1, e[2]>>, <<e[1] + 1, e[2]>>,
             <<e[1], e[2] - 1>>, <<e[1], e[2] + 1>>}
\* e and the elements around it
Nbrs9(e) == {<<e[1] + i, e[2] + j>> : i \in {-1, 0, 1}, j \in {-1, 0, 1}}
\* the closed region made of the cells given
Closure(cells) == UNION {Nbrs9(c) : c \in cells}
\* the cells next to the cell c across an edge that is not in S
OpenNbrs(c, S) ==
    {d \in {<<c[1] - 2, c[2]>>, <<c[1] + 2, c[2]>>,
            <<c[1], c[2] - 2>>, <<c[1], c[2] + 2>>} :
        <<(c[1] + d[1]) \div 2, (c[2] + d[2]) \div 2>> \notin S}

\* the cells among `cells` that a path crossing no edge of S joins to the
\* frontier
RECURSIVE FloodCells(_, _, _, _)
FloodCells(cells, S, frontier, reached) ==
    IF frontier = {} THEN reached
    ELSE LET new == ((UNION {OpenNbrs(c, S) : c \in frontier}) \cap cells)
                    \ reached
         IN  FloodCells(cells, S, new, reached \cup new)

\* the cells outside the closed set S: those joined to the surroundings
OutsideCells(S) ==
    FloodCells(CellsOf(GridElems \ S), S, {Surroundings}, {Surroundings})

\* the cells outside the closed set S with the edges and vertices around them
AroundOutside(S) == UNION {Nbrs9(c) : c \in OutsideCells(S)}

\* the part of the plane outside the closed set S
Outside(S) == AroundOutside(S) \ S

\* whether the cells form one piece, each joined to the next across an edge
OnePiece(cells) ==
    LET c == CHOOSE d \in cells : TRUE
    IN  FloodCells(cells, {}, {c}, {c}) = cells

\* the elements of free that a path inside free joins to the frontier
RECURSIVE Flood(_, _, _)
Flood(free, frontier, reached) ==
    IF frontier = {} THEN reached
    ELSE LET new == ((UNION {Nbrs4(f) : f \in frontier}) \cap free) \ reached
         IN  Flood(free, new, reached \cup new)

\* whether a set of edges and vertices is one curve
OneCurve(T) == LET e == CHOOSE f \in T : TRUE IN Flood(T, {e}, {e}) = T

\* the type shapely gives a set operation's result
GeomType(S) ==
    LET cells == CellsOf(S)
    IN  IF S = {} THEN "Polygon"
        ELSE IF cells = {}
          THEN IF \A e \in S : e[1] % 2 = 0 /\ e[2] % 2 = 0
                 THEN IF Cardinality(S) = 1 THEN "Point" ELSE "MultiPoint"
                 ELSE IF OneCurve(S) THEN "LineString" ELSE "MultiLineString"
        ELSE IF S /= Closure(cells) THEN "GeometryCollection"
        ELSE IF OnePiece(cells) THEN "Polygon" ELSE "MultiPolygon"

Geom(S) == [type |-> GeomType(S), pts |-> S]

\* shapely: a.intersection(b)
ShIntersection(a, b) == Geom(a.pts \cap b.pts)
\* shapely: a.union(b)
ShUnion(a, b) == Geom(a.pts \cup b.pts)
\* shapely: a.difference(b), for two areas
ShDifference(a, b) == Geom(Closure(CellsOf(a.pts) \ CellsOf(b.pts)))

\* shapely: whether the geometry has an exterior (only a Polygon has)
HasExterior(g) == g.type = "Polygon"
\* shapely: list(polygon.exterior.coords), the outer ring only
ExteriorCoords(g) ==
    AroundOutside(g.pts) \cap g.pts
\* shapely: Polygon(points), the area the ring encloses
ShPolygon(ring) == [type |-> "Polygon", pts |-> GridArea \ Outside(ring)]

\* the ring [(x1, y1), (x2, y1), (x2, y2), (x1, y2)]
RectangleRing(x1, x2, y1, y2) ==
    {e \in GridElems :
        /\ 2 * x1 <= e[1] /\ e[1] <= 2 * x2
        /\ 2 * y1 <= e[2] /\ e[2] <= 2 * y2
        /\ e[1] \in {2 * x1, 2 * x2} \/ e[2] \in {2 * y1, 2 * y2}}
\* the rings a polygon is constructed from
Rings ==
    {RectangleRing(c[1], c[2], c[3], c[4]) :
        c \in {d \in (0..MaxGrid) \X (0..MaxGrid) \X (0..MaxGrid) \X (0..MaxGrid) :
                  d[1] < d[2] /\ d[3] < d[4]}}

-----------------------------------------------------------------------------
(* Polygon *)

StyleAttrs == {"fill", "edge_color", "fill_color", "line_width", "line_style",
               "fill_alpha"}

DefaultPolygonStyle_Filled ==
    [fill |-> "True", edge_color |-> "default", fill_color |-> "default",
     line_width |-> "default", line_style |-> "default",
     fill_alpha |-> "default"]
\* Polygon.__init__: the defaults of the style parameters
DefaultPolygonStyle ==
    [fill |-> "default", edge_color |-> "default", fill_color |-> "default",
     line_width |-> "default", line_style |-> "default",
     fill_alpha |-> "default"]

\* the styles the two polygons of a session are constructed with: the first
\* is given every style parameter, the second none
SelfStyles ==
    {[fill |-> "True", edge_color |-> "red", fill_color |-> "pink",
      line_width |-> "2", line_style |-> "--", fill_alpha |-> "0.5"]}
OtherStyles == {DefaultPolygonStyle}

\* Polygon.__init__
PolygonInit(points, style) ==
    [cls |-> "Polygon", fill |-> style.fill, edge_color |-> style.edge_color,
     fill_color |-> style.fill_color, line_width |-> style.line_width,
     line_style |-> style.line_style, fill_alpha |-> style.fill_alpha,
     sh_polygon |-> ShPolygon(points)]

IsPolygon(a) == a \in DOMAIN heap /\ heap[a].cls = "Polygon"

\* the two polygons of a session live at the addresses 1 and 2, and the
\* object its call makes at the address 3; a session makes one call
Operands == {1, 2}
Fresh == Cardinality(Operands) + 1
NotCalled == call.op = "none"

CopyAddress_Alias(self) == self
\* Polygon.copy: deepcopy makes a new object, at an address of its own
CopyAddress(self) == Fresh

\* new_poly = self.copy(); new_poly.sh_polygon = geom; return new_poly
ReturnRestyledCopy(op, self, other, geom) ==
    LET new_poly == CopyAddress(self)
    IN  /\ heap' = (new_poly :> [heap[self] EXCEPT !.sh_polygon = geom]) @@ heap
        /\ call' = Returned(op, <<self, other, TRUE>>, new_poly)

\* return Polygon(list(geom.exterior.coords))
ReturnNewPolygon(op, self, other, geom) ==
    IF HasExterior(geom)
      THEN /\ heap' = (Fresh :> PolygonInit(ExteriorCoords(geom),
                                                DefaultPolygonStyle)) @@ heap
           /\ call' = Returned(op, <<self, other, FALSE>>, Fresh)
      ELSE /\ heap' = heap
           /\ call' = Raised(op, <<self, other, FALSE>>, "AttributeError",
                             "object has no attribute 'exterior'", NoAddr)

\* Polygon.create_intersection
PolygonCreateIntersection(self, other, copy_style) ==
    LET geom == ShIntersection(heap[self].sh_polygon, heap[other].sh_polygon)
    IN  /\ NotCalled
        /\ IsPolygon(self) /\ IsPolygon(other)
        /\ UNCHANGED <<files, mutations>>
        /\ axes' = axes
        /\ IF copy_style
             THEN ReturnRestyledCopy("Polygon.create_intersection", self, other, geom)
             ELSE ReturnNewPolygon("Polygon.create_intersection", self, other, geom)

\* Polygon.create_union
PolygonCreateUnion(self, other, copy_style) ==
    LET geom == ShUnion(heap[self].sh_polygon, heap[other].sh_polygon)
    IN  /\ NotCalled
        /\ IsPolygon(self) /\ IsPolygon(other)
        /\ UNCHANGED <<files, mutations>>
        /\ axes' = axes
        /\ IF copy_style
             THEN ReturnRestyledCopy("Polygon.create_union", self, other, geom)
             ELSE ReturnNewPolygon("Polygon.create_union", self, other, geom)

\* Polygon.create_difference
PolygonCreateDifference(self, other, copy_style) ==
    LET geom == ShDifference(heap[self].sh_polygon, heap[other].sh_polygon)
    IN  /\ NotCalled
        /\ IsPolygon(self) /\ IsPolygon(other)
        /\ UNCHANGED <<files, mutations>>
        /\ axes' = axes
        /\ IF copy_style
             THEN ReturnRestyledCopy("Polygon.create_difference", self, other, geom)
             ELSE ReturnNewPolygon("Polygon.create_difference", self, other, geom)

\* Polygon._plot_element: whether the fill patch and the edge patch are made
PolygonFillDrawn(o) == Truthy(o.fill)
PolygonEdgeDrawn(o) == o.edge_color /= "None"

\* the backend calls of Polygon._plot_element: the fill patch, then the edge
\* patch; self.vertices is the exterior ring, and z_order is not handed on
PolygonBackendCalls(o) ==
    LET vertices == ExteriorCoords(o.sh_polygon)
        fillkw == IF o.fill_color /= "None"
                    THEN [alpha |-> o.fill_alpha, facecolor |-> o.fill_color]
                    ELSE [alpha |-> o.fill_alpha]
        fill == BackendCall("MPLPolygon", vertices, "unset", fillkw)
        edge == BackendCall("MPLPolygon", vertices, "unset",
                    [fill |-> "None", linewidth |-> o.line_width,
                     linestyle |-> o.line_style, edgecolor |-> o.edge_color])
    IN  (IF PolygonFillDrawn(o) THEN <<fill>> ELSE <<>>)
        \o (IF PolygonEdgeDrawn(o) THEN <<edge>> ELSE <<>>)

\* Polygon._plot_element; self.vertices raises when sh_polygon has no
\* exterior
PolygonPlotElement(self, z) ==
    /\ NotCalled
    /\ IsPolygon(self)
    /\ UNCHANGED <<files, mutations>>
    /\ heap' = heap
    /\ IF \/ HasExterior(heap[self].sh_polygon)
          \/ ~(PolygonFillDrawn(heap[self]) \/ PolygonEdgeDrawn(heap[self]))
         THEN /\ axes' = PolygonBackendCalls(heap[self])
              /\ call' = Returned("Polygon._plot_element", <<self, z>>, <<>>)
         ELSE /\ axes' = <<>>
              /\ call' = Raised("Polygon._plot_element", <<self, z>>,
                                "AttributeError",
                                "object has no attribute 'exterior'", <<>>)

-----------------------------------------------------------------------------
(* Polygon: the calls that take a Curve *)

\* an argument is a value, or a reference to an object of the heap
Ref(a) == [cls |-> heap[a].cls, ref |-> a]
\* a test of the attributes in place of the class
IsInstance_Duck(v, cls) == cls = "Curve" /\ "x_data" \in DOMAIN v

\* isinstance(v, cls)
IsInstance(v, cls) == v.cls = cls

\* Curve(x_data, y_data): the vertical line x = k across the grid
VerticalCurve(k) ==
    [cls |-> "Curve", x_data |-> <<k, k>>, y_data |-> <<0, MaxGrid>>]
Curves == {VerticalCurve(k) : k \in 1..(MaxGrid - 1)}
\* arguments that are neither a Curve nor a Polygon: a Point, and an object
\* of another class that has the data attributes of a Curve
NonShapes == {Point(0, 0),
              [cls |-> "Scatter", x_data |-> <<1, 1>>, y_data |-> <<0, MaxGrid>>]}

\* shapely: LineString([(x, y) for x, y in zip(x_data, y_data)]), for a
\* curve whose segments run along the grid lines
ShLineString(x_data, y_data) ==
    UNION {{e \in GridArea :
              /\ Min(2 * x_data[i], 2 * x_data[i + 1]) <= e[1]
              /\ e[1] <= -Min(-2 * x_data[i], -2 * x_data[i + 1])
              /\ Min(2 * y_data[i], 2 * y_data[i + 1]) <= e[2]
              /\ e[2] <= -Min(-2 * y_data[i], -2 * y_data[i + 1])} :
           i \in 1..(Min(Len(x_data), Len(y_data)) - 1)}

\* shapely: g.boundary, for an area
ShBoundary(g) == {e \in g.pts : ~(Nbrs9(e) \subseteq g.pts)}

\* shapely: whether the geometry is a collection (has .geoms)
HasGeoms(g) == g.type \in {"MultiPoint", "MultiLineString", "MultiPolygon",
                           "GeometryCollection"}

\* the pieces the walls S cut the cells into, from the lowest cell on
RECURSIVE Pieces(_, _)
Pieces(cells, S) ==
    IF cells = {} THEN <<>>
    ELSE LET c == CHOOSE d \in cells :
                     \A f \in cells : d[1] < f[1] \/ (d[1] = f[1] /\ d[2] <= f[2])
             piece == FloodCells(cells, S, {c}, {c})
         IN  <<piece>> \o Pieces(cells \ piece, S)

\* shapely.ops.split(polygon, line).geoms: the faces of the boundary and the
\* line together that lie in the polygon
OpsSplit(g, line) ==
    LET pieces == Pieces(CellsOf(g.pts), line)
    IN  [i \in DOMAIN pieces |-> Geom(Closure(pieces[i]))]

\* the points of a MultiPoint, from the lowest on
RECURSIVE PointsOf(_)
PointsOf(S) ==
    IF S = {} THEN <<>>
    ELSE LET e == CHOOSE d \in S :
                     \A f \in S : d[1] < f[1] \/ (d[1] = f[1] /\ d[2] <= f[2])
         IN  <<Point(e[1] \div 2, e[2] \div 2)>> \o PointsOf(S \ {e})

\* Polygon.split
PolygonSplit(self, curve) ==
    /\ NotCalled
    /\ IsPolygon(self)
    /\ UNCHANGED <<axes, files, mutations>>
    /\ IF ~IsInstance(curve, "Curve")
         THEN /\ heap' = heap
              /\ call' = Raised("Polygon.split", <<self, curve>>, "TypeError",
                                "The curve must be a Curve object", <<>>)
         ELSE LET sh_curve == ShLineString(curve.x_data, curve.y_data)
                  split_sh_polygons == OpsSplit(heap[self].sh_polygon, sh_curve)
                  n == Len(split_sh_polygons)
              IN  /\ heap' = [a \in Fresh..(Fresh + n - 1) |->
                                PolygonInit(
                                    ExteriorCoords(split_sh_polygons[a - Fresh + 1]),
                                    DefaultPolygonStyle)] @@ heap
                  /\ call' = Returned("Polygon.split", <<self, curve>>,
                                      [i \in 1..n |-> Fresh + i - 1])

\* [Point(p.x, p.y) for p in intersection.geoms]
ReturnIntersectionPoints(self, other, intersection) ==
    /\ heap' = heap
    /\ IF ~HasGeoms(intersection)
         THEN call' = Raised("Polygon.create_intersection_points",
                             <<self, other>>, "AttributeError",
                             "object has no attribute 'geoms'", <<>>)
         ELSE IF intersection.type /= "MultiPoint"
           THEN call' = Raised("Polygon.create_intersection_points",
                               <<self, other>>, "AttributeError",
                               "object has no attribute 'x'", <<>>)
           ELSE call' = Returned("Polygon.create_intersection_points",
                                 <<self, other>>, PointsOf(intersection.pts))

\* Polygon.create_intersection_points
PolygonCreateIntersectionPoints(self, other) ==
    /\ NotCalled
    /\ IsPolygon(self)
    /\ UNCHANGED <<axes, files, mutations>>
    /\ IF IsInstance(other, "Curve")
         THEN LET other_boundary == ShLineString(other.x_data, other.y_data)
              IN  ReturnIntersectionPoints(self, other,
                      Geom(ShBoundary(heap[self].sh_polygon) \cap other_boundary))
         ELSE IF IsInstance(other, "Polygon")
           THEN ReturnIntersectionPoints(self, other,
                    Geom(ShBoundary(heap[self].sh_polygon)
                         \cap ShBoundary(heap[other.ref].sh_polygon)))
           ELSE /\ heap' = heap
                /\ call' = Raised("Polygon.create_intersection_points",
                                  <<self, other>>, "TypeError",
                                  "The other object must be a Polygon or a Curve",
                                  <<>>)

\* the coordinates of the points of a MultiPoint, from the lowest on
CoordinatesOf(S) == [i \in 1..Cardinality(S) |-> <<PointsOf(S)[i].x, PointsOf(S)[i].y>>]

\* Polygon.get_intersection_coordinates: [(p.x, p.y) for p in
\* intersection.geoms]; other.sh_polygon is read first
PolygonGetIntersectionCoordinates(self, other) ==
    /\ NotCalled
    /\ IsPolygon(self)
    /\ UNCHANGED <<heap, axes, files, mutations>>
    /\ IF ~IsInstance(other, "Polygon")
         THEN call' = Raised("Polygon.get_intersection_coordinates",
                             <<self, other>>, "AttributeError",
                             "object has no attribute 'sh_polygon'", <<>>)
         ELSE LET intersection == Geom(ShBoundary(heap[self].sh_polygon)
                                       \cap ShBoundary(heap[other.ref].sh_polygon))
              IN  IF ~HasGeoms(intersection)
                    THEN call' = Raised("Polygon.get_intersection_coordinates",
                                        <<self, other>>, "AttributeError",
                                        "object has no attribute 'geoms'", <<>>)
                    ELSE IF intersection.type /= "MultiPoint"
                      THEN call' = Raised("Polygon.get_intersection_coordinates",
                                          <<self, other>>, "AttributeError",
                                          "object has no attribute 'x'", <<>>)
                      ELSE call' = Returned("Polygon.get_intersection_coordinates",
                                            <<self, other>>,
                                            CoordinatesOf(intersection.pts))

\* point in polygon: the class Polygon defines neither __contains__ nor
\* __iter__ nor __getitem__, and the membership test has nothing to call
PolygonContainsPoint(self, point) ==
    /\ NotCalled
    /\ IsPolygon(self)
    /\ UNCHANGED <<heap, axes, files, mutations>>
    /\ call' = Raised("Polygon.__contains__", <<self, point>>, "TypeError",
                      "argument of type 'Polygon' is not iterable", <<>>)

\* a session on two polygons: both are constructed, then the boolean
\* operations and the rendering are called on them
InitPolygon ==
    /\ \E points1 \in Rings, points2 \in Rings,
          style1 \in SelfStyles, style2 \in OtherStyles :
          heap = (1 :> PolygonInit(points1, style1))
                 @@ (2 :> PolygonInit(points2, style2))
    /\ call = NoCall
    /\ axes = <<>>
    /\ files = <<>>
    /\ mutations = 0

NextPolygon ==
    \/ NotCalled /\ \E other \in Operands, copy_style \in BOOLEAN :
                       PolygonCreateIntersection(1, other, copy_style)
    \/ NotCalled /\ \E other \in Operands, copy_style \in BOOLEAN :
                       PolygonCreateUnion(1, other, copy_style)
    \/ NotCalled /\ \E other \in Operands, copy_style \in BOOLEAN :
                       PolygonCreateDifference(1, other, copy_style)
    \/ NotCalled /\ \E self \in Operands, z \in ZOrders :
                       PolygonPlotElement(self, z)
    \/ NotCalled /\ \E curve \in Curves \cup NonShapes : PolygonSplit(1, curve)
    \/ NotCalled /\ \E other \in Curves \cup NonShapes :
                       PolygonCreateIntersectionPoints(1, other)
    \/ NotCalled /\ \E other \in Operands :
                       PolygonCreateIntersectionPoints(1, Ref(other))
    \/ NotCalled /\ \E other \in Operands :
                       PolygonGetIntersectionCoordinates(1, Ref(other))
    \/ NotCalled /\ \E point \in {Point(1, 1)} : PolygonContainsPoint(1, point)

SpecPolygon == InitPolygon /\ [][NextPolygon]_vars

-----------------------------------------------------------------------------
(* The coordinates behind a Polygon (shapely).                              *)
(*                                                                          *)
(* For the affine transforms a geometry is held by the coordinate list of   *)
(* its exterior ring, closed as shapely closes it (the first point is       *)
(* repeated at the end).  Angles are in degrees (use_rad is False): the     *)
(* rotations are by multiples of 90 and the skews by multiples of 45, whose *)
(* cosine, sine and tangent are integers.  An absent centre (None) is the   *)
(* empty tuple.                                                             *)

\* a session makes at most MaxMutations mutating calls
MaxMutations == 2

RECURSIVE SumSeq(_)
SumSeq(s) == IF s = <<>> THEN 0 ELSE Head(s) + SumSeq(Tail(s))

\* shapely: Polygon(points), the ring closed
ShPolygonRing(points) ==
    [type |-> "Polygon",
     coords |-> IF points[1] = points[Len(points)]
                  THEN points ELSE Append(points, points[1])]

\* the rings a polygon is transformed from: a triangle and a square
TransformRings ==
    {<< <<-1, -1>>, <<2, -1>>, <<-1, 2>> >>,
     << <<0, 0>>, <<2, 0>>, <<2, 2>>, <<0, 2>> >>}

Cross(c, i) == c[i][1] * c[i + 1][2] - c[i + 1][1] * c[i][2]
\* twice the signed area of the ring c
Area2(c) == SumSeq([i \in 1..(Len(c) - 1) |-> Cross(c, i)])
\* six times the signed area times the k-th coordinate of the centroid
Moment(c, k) ==
    SumSeq([i \in 1..(Len(c) - 1) |-> (c[i][k] + c[i + 1][k]) * Cross(c, i)])
\* n / d for d /= 0 dividing n
Quot(n, d) == IF d > 0 THEN n \div d ELSE (-n) \div (-d)
\* whether the centroid has integer coordinates
CentroidExact(g) ==
    /\ Area2(g.coords) /= 0
    /\ \A k \in {1, 2} :
          Quot(Moment(g.coords, k), 3 * Area2(g.coords)) * 3 * Area2(g.coords)
              = Moment(g.coords, k)
\* shapely: g.centroid.coords[0]
ShCentroid(g) ==
    <<Quot(Moment(g.coords, 1), 3 * Area2(g.coords)),
      Quot(Moment(g.coords, 2), 3 * Area2(g.coords))>>

CosDeg(a) == CASE a % 360 = 0 -> 1 [] a % 360 = 90 -> 0
               [] a % 360 = 180 -> -1 [] a % 360 = 270 -> 0
SinDeg(a) == CASE a % 360 = 0 -> 0 [] a % 360 = 90 -> 1
               [] a % 360 = 180 -> 0 [] a % 360 = 270 -> -1
TanDeg(a) == CASE a % 180 = 0 -> 0 [] a % 180 = 45 -> 1 [] a % 180 = 135 -> -1

\* the geometry with every coordinate pair p replaced by f(p)
MapCoords(g, f(_)) == [g EXCEPT !.coords = [i \in DOMAIN @ |-> f(@[i])]]

\* shapely.affinity.translate(g, xoff, yoff)
ShTranslate(g, xoff, yoff) ==
    MapCoords(g, LAMBDA p : <<p[1] + xoff, p[2] + yoff>>)
\* shapely.affinity.rotate(g, angle, origin), counter-clockwise
ShRotate(g, angle, origin) ==
    MapCoords(g, LAMBDA p :
        <<origin[1] + CosDeg(angle) * (p[1] - origin[1])
                    - SinDeg(angle) * (p[2] - origin[2]),
          origin[2] + SinDeg(angle) * (p[1] - origin[1])
                    + CosDeg(angle) * (p[2] - origin[2])>>)
\* shapely.affinity.scale(g, xfact, yfact, origin)
ShScale(g, xfact, yfact, origin) ==
    MapCoords(g, LAMBDA p : <<origin[1] + xfact * (p[1] - origin[1]),
                              origin[2] + yfact * (p[2] - origin[2])>>)
\* shapely.affinity.skew(g, xs, ys, origin)
ShSkew(g, xs, ys, origin) ==
    MapCoords(g, LAMBDA p : <<p[1] + TanDeg(xs) * (p[2] - origin[2]),
                              p[2] + TanDeg(ys) * (p[1] - origin[1])>>)

-----------------------------------------------------------------------------
(* Polygon: the transforms *)

\* Polygon.__init__, the geometry held by its ring
PolygonInitRing(points, style) ==
    [cls |-> "Polygon", fill |-> style.fill, edge_color |-> style.edge_color,
     fill_color |-> style.fill_color, line_width |-> style.line_width,
     line_style |-> style.line_style, fill_alpha |-> style.fill_alpha,
     sh_polygon |-> ShPolygonRing(points)]

\* p = Polygon(points, ...)
PolygonNew(points, style) ==
    /\ Unbound
    /\ heap' = (1 :> PolygonInitRing(points, style))
    /\ call' = Returned("Polygon", <<points>>, 1)
    /\ UNCHANGED <<axes, files, mutations>>

\* Polygon.vertices: np.array(self.sh_polygon.exterior.coords)
PolygonVertices(o) == o.sh_polygon.coords

\* Polygon.get_centroid_coordinates
PolygonGetCentroidCoordinates(o) == ShCentroid(o.sh_polygon)

CenterOrCentroid_Origin(o, center) ==
    IF center = <<>> THEN <<0, 0>> ELSE center
\* if center is None: center = self.get_centroid_coordinates()
CenterOrCentroid(o, center) ==
    IF center = <<>> THEN PolygonGetCentroidCoordinates(o) ELSE center

\* a mutating call is made while the session has some left
CanMutate == mutations < MaxMutations

\* self.sh_polygon = geom; the method returns None
PolygonSetGeometry(op, args, self, geom) ==
    /\ CanMutate
    /\ mutations' = mutations + 1
    /\ heap' = [heap EXCEPT ![self].sh_polygon = geom]
    /\ call' = Returned(op, args, <<>>)
    /\ UNCHANGED <<axes, files>>

\* a transform without a centre is made where the centroid is exact
CenterGiven(self, center) ==
    /\ IsPolygon(self)
    /\ center = <<>> => CentroidExact(heap[self].sh_polygon)

\* Polygon.translate
PolygonTranslate(self, dx, dy) ==
    /\ IsPolygon(self)
    /\ PolygonSetGeometry("Polygon.translate", <<self, dx, dy>>, self,
                          ShTranslate(heap[self].sh_polygon, dx, dy))

\* Polygon.rotate
PolygonRotate(self, angle, center) ==
    /\ CenterGiven(self, center)
    /\ PolygonSetGeometry("Polygon.rotate", <<self, angle, center>>, self,
                          ShRotate(heap[self].sh_polygon, angle,
                                   CenterOrCentroid(heap[self], center)))

\* Polygon.scale
PolygonScale(self, x_scale, y_scale, center) ==
    /\ CenterGiven(self, center)
    /\ PolygonSetGeometry("Polygon.scale", <<self, x_scale, y_scale, center>>,
                          self,
                          ShScale(heap[self].sh_polygon, x_scale, y_scale,
                                  CenterOrCentroid(heap[self], center)))

\* Polygon.skew
PolygonSkew(self, x_skew, y_skew, center) ==
    /\ CenterGiven(self, center)
    /\ PolygonSetGeometry("Polygon.skew", <<self, x_skew, y_skew, center>>,
                          self,
                          ShSkew(heap[self].sh_polygon, x_skew, y_skew,
                                 CenterOrCentroid(heap[self], center)))

\* np.dot(points, matrix): every row (x, y) times the 2x2 matrix
MatMul(points, matrix) ==
    [i \in DOMAIN points |->
        <<points[i][1] * matrix[1][1] + points[i][2] * matrix[2][1],
          points[i][1] * matrix[1][2] + points[i][2] * matrix[2][2]>>]

\* Polygon.apply_transform: it reads self.points, an attribute that
\* __init__ does not set
PolygonApplyTransform(self, matrix) ==
    /\ IsPolygon(self)
    /\ UNCHANGED <<axes, files>>
    /\ IF "points" \in DOMAIN heap[self]
         THEN LET new_points == MatMul(heap[self].points, matrix)
              IN  /\ CanMutate
                  /\ mutations' = mutations + 1
                  /\ heap' = [heap EXCEPT ![self] =
                                 [@ EXCEPT !.points = new_points,
                                           !.sh_polygon = ShPolygonRing(new_points)]]
                  /\ call' = Returned("Polygon.apply_transform",
                                      <<self, matrix>>, <<>>)
         ELSE /\ UNCHANGED <<heap, mutations>>
              /\ call' = Raised("Polygon.apply_transform", <<self, matrix>>,
                                "AttributeError",
                                "'Polygon' object has no attribute 'points'",
                                <<>>)

\* the inputs of the transforms: (dx, dy), (angle, center),
\* (x_scale, y_scale, center), (x_skew, y_skew, center) and matrix
Shifts == {<<1, 0>>, <<-1, 2>>}
Rotations == {<<90, <<>>>>, <<180, <<0, 0>>>>}
Scalings == {<<2, 2, <<>>>>, <<-1, 1, <<0, 0>>>>}
Skewings == {<<45, 0, <<>>>>, <<0, 45, <<1, 1>>>>}
Matrices == {<< <<0, 1>>, <<1, 0>> >>, << <<2, 0>>, <<0, 1>> >>}

-----------------------------------------------------------------------------
(* copy() and attribute assignment, for every shape kind *)

DeepCopy_Alias(op, self) ==
    /\ Fresh \notin DOMAIN heap
    /\ call' = Returned(op, <<self>>, self)
    /\ UNCHANGED <<heap, axes, files, mutations>>
\* deepcopy(self): a new object with the attribute values of self
DeepCopy(op, self) ==
    LET new == CopyAddress(self)
    IN  /\ Fresh \notin DOMAIN heap
        /\ heap' = (new :> heap[self]) @@ heap
        /\ call' = Returned(op, <<self>>, new)
        /\ UNCHANGED <<axes, files, mutations>>

CircleCopy(self) == IsCircle(self) /\ DeepCopy("Circle.copy", self)
RectangleCopy(self) == IsRectangle(self) /\ DeepCopy("Rectangle.copy", self)
ArrowCopy(self) == IsArrow(self) /\ DeepCopy("Arrow.copy", self)
LineCopy(self) == IsLine(self) /\ DeepCopy("Line.copy", self)
PolygonCopy(self) == IsPolygon(self) /\ DeepCopy("Polygon.copy", self)

\* the attribute assignments made on a shape of the class cls: radius and
\* width are also given a value the constructor refuses
Assignments(cls) ==
    CASE cls = "Circle" -> {<<"radius", 0>>, <<"x_center", 7>>}
      [] cls = "Rectangle" -> {<<"width", -1>>, <<"y_bottom_left", 7>>}
      [] cls = "Arrow" -> {<<"pointA", <<7, 7>>>>, <<"two_sided", TRUE>>}
      [] cls = "Line" -> {<<"pointB", <<7, 7>>>>, <<"capped_line", TRUE>>}
      [] cls = "Polygon" ->
            {<<"edge_color", "blue">>,
             <<"points", << <<0, 0>>, <<1, 0>>, <<0, 1>> >> >>}

\* self.attr = value: the shapes are plain (non-frozen) objects, no check is
\* made
SetAttr(self, attr, value) ==
    /\ self \in DOMAIN heap
    /\ CanMutate
    /\ mutations' = mutations + 1
    /\ heap' = [heap EXCEPT ![self] = (attr :> value) @@ @]
    /\ call' = Returned("setattr", <<self, attr, value>>, <<>>)
    /\ UNCHANGED <<axes, files>>

-----------------------------------------------------------------------------
(* The shapes under mutation: a shape is constructed (address 1), may be    *)
(* copied once (the copy is at the address Fresh), and the two are mutated, *)
(* queried and rendered.                                                    *)

\* the objects a mutating call is made on
Mutables == {1, Fresh}

\* the styles of the shapes under mutation
FilledStyles == {s \in ShapeStyles : s.fill = "True"}

InitMutation ==
    /\ heap = <<>>
    /\ call = NoCall
    /\ axes = <<>>
    /\ files = <<>>
    /\ mutations = 0

NextMutation ==
    \/ Unbound /\ \E x \in {0, 1}, r \in {0, 1, 5}, style \in FilledStyles :
                     CircleNew(x, 0, r, style)
    \/ Unbound /\ \E y \in {0, 1}, w \in {0, 2}, h \in {-1, 1},
                     style \in FilledStyles : RectangleNew(0, y, w, h, style)
    \/ Unbound /\ \E w \in {0, 2}, style \in FilledStyles :
                     RectangleFromCenter(0, 0, w, 2, style)
    \/ Unbound /\ \E point2 \in Points, style \in FilledStyles :
                     RectangleFromPoints(Point(0, 0), point2, style)
    \/ Unbound /\ \E b \in ArrowPoints, stroke \in StrokeStyles,
                     head_size \in HeadSizes :
                     ArrowNew(<<0, 0>>, b, stroke, head_size, 0, FALSE)
    \/ Unbound /\ \E b \in ArrowPoints, stroke \in StrokeStyles :
                     LineNew(<<0, 0>>, b, stroke, FALSE, "1")
    \/ Unbound /\ \E points \in TransformRings, style \in SelfStyles :
                     PolygonNew(points, style)
    \/ CircleCopy(1)
    \/ RectangleCopy(1)
    \/ ArrowCopy(1)
    \/ LineCopy(1)
    \/ PolygonCopy(1)
    \/ \E self \in Mutables \cap DOMAIN heap :
          \E a \in Assignments(heap[self].cls) : SetAttr(self, a[1], a[2])
    \/ \E self \in Mutables, d \in Shifts : PolygonTranslate(self, d[1], d[2])
    \/ \E self \in Mutables, r \in Rotations : PolygonRotate(self, r[1], r[2])
    \/ \E self \in Mutables, f \in Scalings :
          PolygonScale(self, f[1], f[2], f[3])
    \/ \E self \in Mutables, k \in Skewings :
          PolygonSkew(self, k[1], k[2], k[3])
    \/ \E self \in Mutables, matrix \in Matrices :
          PolygonApplyTransform(self, matrix)
    \/ \E x \in QueryCoords : CircleGetCoordinatesAtX(x)
    \/ \E x \in QueryCoords : CircleCreatePointsAtX(x)
    \/ \E y \in QueryCoords : CircleGetCoordinatesAtY(y)
    \/ \E y \in QueryCoords : CircleCreatePointsAtY(y)
    \/ CircleGetArea
    \/ CircleGetCircumference
    \/ \E z \in ZOrders : CirclePlotElement(z)
    \/ \E x \in QueryCoords : RectangleGetCoordinatesAtX(x)
    \/ \E x \in QueryCoords : RectangleCreatePointsAtX(x)
    \/ \E y \in QueryCoords : RectangleGetCoordinatesAtY(y)
    \/ \E y \in QueryCoords : RectangleCreatePointsAtY(y)
    \/ RectangleGetArea
    \/ RectangleGetPerimeter
    \/ \E z \in ZOrders : RectanglePlotElement(z)

SpecMutation == InitMutation /\ [][NextMutation]_vars

-----------------------------------------------------------------------------
(* Circle in floating point.                                                *)
(*                                                                          *)
(* The coordinate queries of Circle compare a computed root with zero.  The *)
(* numbers of Python are binary floating point: every sum, difference and   *)
(* product is rounded to the nearest number of the format, ties to the even *)
(* significand.  Here a number is an integer of at most MantissaBits        *)
(* significant bits (binary64 keeps 53); there is no bound on the exponent. *)
(* A root is kept as the number it is the root of.                          *)

\* the significant bits a number keeps
MantissaBits == 3

RECURSIVE BitLength(_)
BitLength(n) == IF n = 0 THEN 0 ELSE 1 + BitLength(n \div 2)
RECURSIVE Pow2(_)
Pow2(k) == IF k = 0 THEN 1 ELSE 2 * Pow2(k - 1)

\* the rounding of an exact result to the format
FlRound(n) ==
    LET a == Abs(n)
        e == BitLength(a) - MantissaBits
    IN  IF e <= 0 THEN n
        ELSE LET u == Pow2(e)
                 q == a \div u
                 rem == a % u
                 up == 2 * rem > u \/ (2 * rem = u /\ q % 2 = 1)
                 m == (IF up THEN q + 1 ELSE q) * u
             IN  IF n < 0 THEN -m ELSE m

\* a + b, a - b, a * b and a ** 2 on floats
FlAdd(a, b) == FlRound(a + b)
FlSub(a, b) == FlRound(a - b)
FlMul(a, b) == FlRound(a * b)
FlSquare(a) == FlMul(a, a)

\* the floats the circles and the queries are drawn from
FloatMax == Pow2(MantissaBits + 1)
Floats == {n \in -FloatMax..FloatMax : FlRound(n) = n}

\* np.sqrt: nan on a negative number
NaN == [nan |-> TRUE, sign |-> 1, squared |-> 0]
FlSqrt(d) == IF d < 0 THEN NaN ELSE [nan |-> FALSE, sign |-> 1, squared |-> d]
\* y == 0 (false on nan)
FlIsZero(y) == ~y.nan /\ y.squared = 0
\* -y (the negative of nan is nan)
FlNeg(y) == IF y.nan THEN y ELSE [y EXCEPT !.sign = -@]

\* the range check of the coordinate queries
FlCircleOutOfRange(center, radius, v) ==
    v < FlSub(center, radius) \/ v > FlAdd(center, radius)
\* np.sqrt(self.radius**2 - (x - self.x_center) ** 2)
FlCircleRoot(center, radius, v) ==
    FlSqrt(FlSub(FlSquare(radius), FlSquare(FlSub(v, center))))
FlCircleRangeMsg(axis, center, radius) ==
    <<axis, " must be between ", FlSub(center, radius), " and ",
      FlAdd(center, radius)>>

\* Circle.get_coordinates_at_x and Circle.create_points_at_x
FlCircleAtX(op, x) ==
    /\ IsCircle(1)
    /\ UNCHANGED <<heap, axes, files, mutations>>
    /\ LET c == heap[1]
           y == FlCircleRoot(c.x_center, c.radius, x)
       IN  call' =
             IF FlCircleOutOfRange(c.x_center, c.radius, x)
               THEN Raised(op, <<x>>, "ValueError",
                           FlCircleRangeMsg("x", c.x_center, c.radius), <<>>)
               ELSE IF op = "Circle.get_coordinates_at_x"
                 THEN Returned(op, <<x>>,
                               IF FlIsZero(y) THEN << <<x, y>> >>
                               ELSE << <<x, y>>, <<x, FlNeg(y)>> >>)
                 ELSE Returned(op, <<x>>,
                               IF FlIsZero(y) THEN <<Point(x, y)>>
                               ELSE <<Point(x, y), Point(x, FlNeg(y))>>)

\* Circle.get_coordinates_at_y and Circle.create_points_at_y
FlCircleAtY(op, y) ==
    /\ IsCircle(1)
    /\ UNCHANGED <<heap, axes, files, mutations>>
    /\ LET c == heap[1]
           x == FlCircleRoot(c.y_center, c.radius, y)
       IN  call' =
             IF FlCircleOutOfRange(c.y_center, c.radius, y)
               THEN Raised(op, <<y>>, "ValueError",
                           FlCircleRangeMsg("y", c.y_center, c.radius), <<>>)
               ELSE IF op = "Circle.get_coordinates_at_y"
                 THEN Returned(op, <<y>>,
                               IF FlIsZero(x) THEN << <<x, y>> >>
                               ELSE << <<x, y>>, <<FlNeg(x), y>> >>)
                 ELSE Returned(op, <<y>>,
                               IF FlIsZero(x) THEN <<Point(x, y)>>
                               ELSE <<Point(x, y), Point(FlNeg(x), y)>>)

DefaultStyle ==
    [fill |-> "default", color |-> "default", line_width |-> "default",
     line_style |-> "default", fill_alpha |-> "default"]

\* a session on floats: a circle is constructed, then one query is made
NextFloat ==
    \/ \E c \in {f \in Floats : f >= 0}, r \in Floats :
          CircleNew(c, c, r, DefaultStyle)
    \/ call.op = "Circle" /\ \E x \in Floats :
          \E op \in {"Circle.get_coordinates_at_x", "Circle.create_points_at_x"} :
             FlCircleAtX(op, x)
    \/ call.op = "Circle" /\ \E y \in Floats :
          \E op \in {"Circle.get_coordinates_at_y", "Circle.create_points_at_y"} :
             FlCircleAtY(op, y)

SpecFloat == Init /\ [][NextFloat]_vars

-----------------------------------------------------------------------------
(* The gallery build hook (docs/sphinxext/gallery_generator.py).            *)
(*                                                                          *)
(* files maps a path, the pair of a directory and a file name, to the       *)
(* file's modification time and text; a directory is the path with the      *)
(* empty file name.  A file name is the sequence of its characters.  Time   *)
(* is a counter: a write is stamped with the time of the latest stamp or    *)
(* the next one, so that two writes may carry the same stamp, and no file   *)
(* carries a stamp of the future.  The build runs with the source directory *)
(* of the documentation ("docs") as its working directory, and the example  *)
(* scripts run without error.                                               *)

\* the latest time stamp of a session
MaxTime == 2

\* the directories of main
StaticDir == "docs/_static"
TargetDir == "docs/examples"
ImageDir == "docs/examples/_images"
ThumbDir == "docs/example_thumbs"
SourceDir == "examples"

PyExt == <<".", "p", "y">>
RstExt == <<".", "r", "s", "t">>
HtmlExt == <<".", "h", "t", "m", "l">>
PngExt == <<".", "p", "n", "g">>
TxtExt == <<".", "t", "x", "t">>
IndexRst == <<"i", "n", "d", "e", "x">> \o RstExt

\* the names the files of the examples directory are drawn from
ExampleNames == {<<"a">>, <<"i", "n", "d", "e", "x">>}
SourceFiles == {n \o PyExt : n \in ExampleNames} \cup {<<"a">> \o TxtExt}

\* ord(c) of the characters of the file names
Ord(c) ==
    CASE c = "." -> 46 [] c = "a" -> 97
      [] c = "d" -> 100 [] c = "e" -> 101 [] c = "i" -> 105 [] c = "n" -> 110
      [] c = "p" -> 112 [] c = "t" -> 116 [] c = "x" -> 120 [] c = "y" -> 121

\* s < t on strings
RECURSIVE StrLess(_, _)
StrLess(s, t) ==
    IF t = <<>> THEN FALSE
    ELSE IF s = <<>> THEN TRUE
    ELSE IF Head(s) /= Head(t) THEN Ord(Head(s)) < Ord(Head(t))
    ELSE StrLess(Tail(s), Tail(t))

\* sorted(S)
RECURSIVE Sorted(_)
Sorted(S) ==
    IF S = {} THEN <<>>
    ELSE LET first == CHOOSE s \in S : \A t \in S \ {s} : StrLess(s, t)
         IN  <<first>> \o Sorted(S \ {first})

EndsWith(s, ext) ==
    Len(s) >= Len(ext) /\ SubSeq(s, Len(s) - Len(ext) + 1, Len(s)) = ext

\* glob.glob(op.join(dir, "*.py")): the names of dir that end in .py and
\* do not start with a dot
GlobPy(fs, dir) ==
    {p[2] : p \in {q \in DOMAIN fs : /\ q[1] = dir
                                     /\ EndsWith(q[2], PyExt)
                                     /\ Head(q[2]) /= "."}}

\* op.splitext(name): the name is cut at its last dot, leading dots aside
SplitExt(name) ==
    LET dots == {i \in 2..Len(name) : name[i] = "."}
    IN  IF dots = {} THEN <<name, <<>>>>
        ELSE LET k == CHOOSE i \in dots : \A j \in dots : j <= i
             IN  <<SubSeq(name, 1, k - 1), SubSeq(name, k, Len(name))>>

\* the properties of ExampleGenerator, for the example of file name fname
ModuleName(fname) == SplitExt(fname)[1]
PyFileName(fname) == ModuleName(fname) \o PyExt
RstFileName(fname) == ModuleName(fname) \o RstExt
HtmlFileName(fname) == ModuleName(fname) \o HtmlExt
PngFile(fname) == ModuleName(fname) \o PngExt
ThumbFileName(fname) ==
    ModuleName(fname) \o <<"_", "t", "h", "u", "m", "b">> \o PngExt

\* the text of a file: what it is, what it is of, and its content
Text(is, of, body) == [is |-> is, of |-> of, body |-> body]
Dir == Text("dir", <<>>, <<>>)
ScriptText(fname, t) == Text("script", fname, <<t>>)

\* the time of the latest stamp, and the times a write may be stamped with
Now(fs) ==
    IF DOMAIN fs = {} THEN 0
    ELSE LET p == CHOOSE q \in DOMAIN fs :
                     \A o \in DOMAIN fs : fs[o].mtime <= fs[q].mtime
         IN  fs[p].mtime
WriteTimes(fs) == {t \in {Now(fs), Now(fs) + 1} : t <= MaxTime}

\* open(path, "w").write(text), shutil.copyfile, savefig
Write(fs, path, t, text) == (path :> [mtime |-> t, text |-> text]) @@ fs

\* if not op.exists(dir): os.makedirs(dir)
MakeDirs(fs, dir, t) ==
    IF <<dir, <<>>>> \in DOMAIN fs THEN fs ELSE Write(fs, <<dir, <<>>>>, t, Dir)

MtimeOlder_OrEqual(fs, out, filename) == fs[out].mtime <= fs[filename].mtime
\* op.getmtime(outfilename) < file_mtime
MtimeOlder(fs, out, filename) == fs[out].mtime < fs[filename].mtime

\* ExampleGenerator.__init__: whether the example is executed
NeedsRun(fs, fname) ==
    LET outfilename == <<TargetDir, RstFileName(fname)>>
    IN  \/ outfilename \notin DOMAIN fs
        \/ MtimeOlder(fs, outfilename, <<SourceDir, fname>>)

\* ExampleGenerator.exec_file: the figure and its thumbnail are saved
ExecFile(st, fname, t) ==
    LET src == st.files[<<SourceDir, fname>>].text
        pngfile == <<ImageDir, PngFile(fname)>>
        thumbfile == <<ThumbDir, ThumbFileName(fname)>>
    IN  [st EXCEPT
           !.files = Write(Write(@, pngfile, t,
                                 Text("png", ModuleName(fname), src.body)),
                           thumbfile, t,
                           Text("thumb", ModuleName(fname), src.body)),
           !.executed = Append(@, BackendCall("savefig", pngfile, "unset",
                                              [dpi |-> "75",
                                               bbox_inches |-> "tight"]))]

\* ExampleGenerator.toctree_entry and contents_entry
ToctreeEntry(fname) == <<".", SplitExt(HtmlFileName(fname))[1]>>
ContentsEntry(fname, src) ==
    [href |-> HtmlFileName(fname), img |-> ThumbFileName(fname),
     title |-> src.body]

\* RST_TEMPLATE.format(...)
PageText(fname, src) ==
    Text("page", ModuleName(fname),
         [docstring |-> src.body, fname |-> PyFileName(fname),
          img_file |-> <<"_images", PngFile(fname)>>])

\* INDEX_TEMPLATE.format(...)
IndexText(toctree, contents) ==
    Text("index", <<>>, [toctree |-> toctree, contents |-> contents])

\* one round of the loop of main
MainStep(st, fname, t) ==
    LET src == st.files[<<SourceDir, fname>>].text
        ex == IF NeedsRun(st.files, fname) THEN ExecFile(st, fname, t) ELSE st
        copied == Write(ex.files, <<TargetDir, PyFileName(fname)>>, t, src)
        written == Write(copied, <<TargetDir, RstFileName(fname)>>, t,
                         PageText(fname, src))
    IN  [files |-> written,
         executed |-> ex.executed,
         toctree |-> Append(st.toctree, ToctreeEntry(fname)),
         contents |-> Append(st.contents, ContentsEntry(fname, src))]

RECURSIVE MainLoop(_, _, _)
MainLoop(st, filenames, t) ==
    IF filenames = <<>> THEN st
    ELSE MainLoop(MainStep(st, Head(filenames), t), Tail(filenames), t)

\* main(app), the handler of builder-inited
GalleryMain ==
    \E t \in WriteTimes(files) :
       LET dirs == MakeDirs(MakeDirs(MakeDirs(MakeDirs(MakeDirs(
                       files, StaticDir, t), TargetDir, t), ImageDir, t),
                       ThumbDir, t), SourceDir, t)
           st == MainLoop([files |-> dirs, executed |-> <<>>,
                           toctree |-> <<>>, contents |-> <<>>],
                          Sorted(GlobPy(dirs, SourceDir)), t)
       IN  /\ files' = Write(st.files, <<TargetDir, IndexRst>>, t,
                             IndexText(st.toctree, st.contents))
           /\ axes' = st.executed
           /\ call' = Returned("main", <<"app">>, <<>>)
           /\ UNCHANGED <<heap, mutations>>

\* the author writes (creates or modifies) a file of the examples directory
WriteSource(fname) ==
    \E t \in WriteTimes(files) :
       /\ files' = Write(files, <<SourceDir, fname>>, t, ScriptText(fname, t))
       /\ call' = Returned("write", <<fname>>, <<>>)
       /\ UNCHANGED <<heap, axes, mutations>>

NextGallery ==
    \/ GalleryMain
    \/ \E fname \in SourceFiles : WriteSource(fname)

SpecGallery == Init /\ [][NextGallery]_vars

-----------------------------------------------------------------------------
(* Claims about the shapes built from numbers, checked under Spec. *)

PlotOps == {"Circle._plot_element", "Rectangle._plot_element",
            "Arrow._plot_element", "Line._plot_element",
            "Polygon._plot_element"}

\* C1: Constructing a Circle with radius <= 0 raises ValueError and yields
\* no Circle object; with any radius > 0 the construction succeeds and the
\* circle holds the centre and radius given, whatever the centre.
C1_CircleRadiusValidated ==
    call.op = "Circle" =>
        LET x == call.args[1]
            y == call.args[2]
            r == call.args[3]
        IN  /\ r <= 0 => /\ call.exc = "ValueError"
                         /\ call.ret = NoAddr
                         /\ DOMAIN heap = {}
            /\ r > 0 => /\ call.exc = "none"
                        /\ IsCircle(call.ret)
                        /\ heap[call.ret].x_center = x
                        /\ heap[call.ret].y_center = y
                        /\ heap[call.ret].radius = r

\* C1 witness: a Circle of radius zero was refused.
C1_Witness ==
    call.op = "Circle" /\ call.args[3] = 0 /\ call.exc = "ValueError"

\* C2: Constructing a Rectangle, directly or through from_center, with
\* width <= 0 or height <= 0 raises ValueError and yields no Rectangle; with
\* width > 0 and height > 0 the construction succeeds with that width and
\* height.
C2_RectangleSizeValidated ==
    call.op \in {"Rectangle", "Rectangle.from_center"} =>
        LET w == call.args[3]
            h == call.args[4]
        IN  /\ (w <= 0 \/ h <= 0) => /\ call.exc = "ValueError"
                                     /\ call.ret = NoAddr
                                     /\ DOMAIN heap = {}
            /\ (w > 0 /\ h > 0) => /\ call.exc = "none"
                                   /\ IsRectangle(call.ret)
                                   /\ heap[call.ret].width = w
                                   /\ heap[call.ret].height = h

\* C2 witness: from_center refused a positive width with a height of zero.
C2_Witness ==
    /\ call.op = "Rectangle.from_center"
    /\ call.args[3] > 0 /\ call.args[4] = 0
    /\ call.exc = "ValueError"

\* C3: Rectangle.from_points raises ValueError whenever the two points share
\* an x coordinate or share a y coordinate, and succeeds for every other
\* pair of points.
C3_FromPointsRejectsAlignedPoints ==
    call.op = "Rectangle.from_points" =>
        LET point1 == call.args[1]
            point2 == call.args[2]
            aligned == point1.x = point2.x \/ point1.y = point2.y
        IN  /\ aligned => call.exc = "ValueError" /\ call.ret = NoAddr
            /\ ~aligned => call.exc = "none" /\ IsRectangle(call.ret)

\* C3 witness: two distinct points on one vertical line were refused.
C3_Witness ==
    /\ call.op = "Rectangle.from_points"
    /\ call.args[1].x = call.args[2].x /\ call.args[1].y /= call.args[2].y
    /\ call.exc = "ValueError"

C5_RenderingLeavesShapeUnchanged ==
    [][(call'.op \in PlotOps /\ call'.exc = "none") => heap' = heap]_vars

\* C6 as claimed: for every in-range x, every pair returned by
\* get_coordinates_at_x(x) and every Point returned by create_points_at_x(x)
\* has abscissa x and lies on the circle.
C6_PointsAtXLieOnCircle ==
    (call.op \in {"Circle.get_coordinates_at_x", "Circle.create_points_at_x"}
     /\ call.exc = "none") =>
        LET c == heap[1]
            onCircle(px, py) ==
                (px - c.x_center) * (px - c.x_center)
                + (py - c.y_center) * (py - c.y_center) = c.radius * c.radius
        IN  \A i \in DOMAIN call.ret :
               LET p == call.ret[i]
               IN  IF call.op = "Circle.get_coordinates_at_x"
                     THEN p[1] = call.args[1] /\ onCircle(p[1], p[2])
                     ELSE p.x = call.args[1] /\ onCircle(p.x, p.y)

\* C7 as claimed: for every in-range y, every pair returned by
\* get_coordinates_at_y(y) and every Point returned by create_points_at_y(y)
\* has ordinate y and lies on the circle.
C7_PointsAtYLieOnCircle ==
    (call.op \in {"Circle.get_coordinates_at_y", "Circle.create_points_at_y"}
     /\ call.exc = "none") =>
        LET c == heap[1]
            onCircle(px, py) ==
                (px - c.x_center) * (px - c.x_center)
                + (py - c.y_center) * (py - c.y_center) = c.radius * c.radius
        IN  \A i \in DOMAIN call.ret :
               LET p == call.ret[i]
               IN  IF call.op = "Circle.get_coordinates_at_y"
                     THEN p[2] = call.args[1] /\ onCircle(p[1], p[2])
                     ELSE p.y = call.args[1] /\ onCircle(p.x, p.y)

\* a returned coordinate pair or Point, as a Point
AsPoint(v) == IF DOMAIN v = {1, 2} THEN Point(v[1], v[2]) ELSE v

\* C16: Rectangle.get_coordinates_at_x and create_points_at_x raise
\* ValueError exactly when x <= x_bottom_left or x >= x_bottom_left + width
\* (the sides themselves are rejected), and otherwise return the two points
\* (x, y_bottom_left) and (x, y_bottom_left + height), both contained in the
\* rectangle; the at_y variants do the same with the bottom and top sides and
\* the points (x_bottom_left, y) and (x_bottom_left + width, y).
C16_RectangleQueriesInRange ==
    LET r == heap[1]
        v == call.args[1]
        left == r.x_bottom_left
        right == r.x_bottom_left + r.width
        bottom == r.y_bottom_left
        top == r.y_bottom_left + r.height
        Contained == \A i \in 1..2 : RectangleContains(r, AsPoint(call.ret[i]))
    IN  /\ call.op \in {"Rectangle.get_coordinates_at_x",
                        "Rectangle.create_points_at_x"}
           => /\ call.exc = "ValueError" <=> (v <= left \/ v >= right)
              /\ call.exc \in {"ValueError", "none"}
              /\ call.exc = "none"
                   => /\ Len(call.ret) = 2
                      /\ AsPoint(call.ret[1]) = Point(v, bottom)
                      /\ AsPoint(call.ret[2]) = Point(v, top)
                      /\ Contained
        /\ call.op \in {"Rectangle.get_coordinates_at_y",
                        "Rectangle.create_points_at_y"}
           => /\ call.exc = "ValueError" <=> (v <= bottom \/ v >= top)
              /\ call.exc \in {"ValueError", "none"}
              /\ call.exc = "none"
                   => /\ Len(call.ret) = 2
                      /\ AsPoint(call.ret[1]) = Point(left, v)
                      /\ AsPoint(call.ret[2]) = Point(right, v)
                      /\ Contained
        /\ call.op = "Rectangle.create_points_at_x" /\ call.exc = "none"
           => call.ret[1].cls = "Point"

\* a query at the right side itself is rejected
C16_Witness ==
    /\ call.op = "Rectangle.create_points_at_x"
    /\ call.args[1] = heap[1].x_bottom_left + heap[1].width
    /\ call.exc = "ValueError"
    /\ heap[1].x_bottom_left /= 0

\* C20: Circle.get_area() is pi * radius^2 and Circle.get_circumference() is
\* 2 * pi * radius, whatever the centre; Rectangle.get_area() is
\* width * height and Rectangle.get_perimeter() is 2 * (width + height),
\* whatever the corner.
C20_AreasAndPerimeters ==
    /\ call.op = "Circle.get_area"
         => call.exc = "none" /\ call.ret = PiTimes(heap[1].radius * heap[1].radius)
    /\ call.op = "Circle.get_circumference"
         => call.exc = "none" /\ call.ret = PiTimes(2 * heap[1].radius)
    /\ call.op = "Rectangle.get_area"
         => call.exc = "none" /\ call.ret = heap[1].width * heap[1].height
    /\ call.op = "Rectangle.get_perimeter"
         => call.exc = "none"
            /\ call.ret = 2 * (heap[1].width + heap[1].height)

C20_Witness ==
    /\ call.op = "Circle.get_area"
    /\ heap[1].radius = 2
    /\ heap[1].x_center /= 0
    /\ call.ret = PiTimes(4)

-----------------------------------------------------------------------------
(* Claims about the boolean operations of Polygon, checked under            *)
(* SpecPolygon.                                                             *)

BoolOps == {"Polygon.create_intersection", "Polygon.create_union",
            "Polygon.create_difference"}

\* the region a polygon covers
Region(o) == o.sh_polygon.pts

\* the region the operation op is to give on the regions A and B: their
\* common points, their points together, and the area of A not in B
ExpectedRegion(op, A, B) ==
    CASE op = "Polygon.create_intersection" -> A \cap B
      [] op = "Polygon.create_union" -> A \cup B
      [] op = "Polygon.create_difference" -> Closure(CellsOf(A) \ CellsOf(B))

\* C8 as claimed: create_intersection, create_union and create_difference
\* each return a Polygon whose region is the intersection, the union and the
\* difference of the two regions, for every relative placement of the two
\* polygons.
C8_BooleanOperationsGiveTheRegion ==
    call.op \in BoolOps =>
        /\ call.exc = "none"
        /\ IsPolygon(call.ret)
        /\ Region(heap[call.ret])
             = ExpectedRegion(call.op, Region(heap[call.args[1]]),
                              Region(heap[call.args[2]]))

\* C9: The boolean operations leave both operands as they were, whether
\* copy_style is True or False, and what they return is a Polygon that is
\* neither of the two operands.
C9_BooleanOperationsLeaveOperands ==
    [][call'.op \in BoolOps =>
          /\ \A a \in Operands : a \in DOMAIN heap' /\ heap'[a] = heap[a]
          /\ call'.exc = "none" =>
                /\ call'.ret \notin {call'.args[1], call'.args[2]}
                /\ call'.ret \in DOMAIN heap'
                /\ heap'[call'.ret].cls = "Polygon"]_vars

\* C9 witness: an operation called with copy_style True on two polygons of
\* different regions returned a polygon of a region other than self's.
C9_Witness ==
    /\ call.op \in BoolOps /\ call.exc = "none"
    /\ call.args[3] = TRUE
    /\ call.args[1] /= call.args[2]
    /\ IsPolygon(call.ret)
    /\ Region(heap[call.ret]) /= Region(heap[call.args[1]])

\* C10: When copy_style is True the polygon returned has the fill,
\* edge_color, fill_color, line_width, line_style and fill_alpha of self;
\* when copy_style is False each of them is the placeholder "default".
C10_ResultStyleFollowsCopyStyle ==
    (call.op \in BoolOps /\ call.exc = "none") =>
        /\ IsPolygon(call.ret)
        /\ \A attr \in StyleAttrs :
              heap[call.ret][attr] = IF call.args[3]
                                       THEN heap[call.args[1]][attr]
                                       ELSE "default"

\* C10 witness: both settings of copy_style are reached on a self whose
\* style differs from other's in every attribute; here copy_style True.
C10_Witness ==
    /\ call.op \in BoolOps /\ call.exc = "none"
    /\ call.args[3] = TRUE
    /\ \A attr \in StyleAttrs :
          /\ heap[call.args[1]][attr] /= heap[2][attr]
          /\ heap[call.args[1]][attr] /= "default"

\* C13: Polygon.split raises TypeError when its argument is not a Curve and
\* Polygon.create_intersection_points raises TypeError when its argument is
\* neither a Polygon nor a Curve; the call leaves every object, the polygon's
\* geometry and style among them, as it was.
C13_WrongArgumentRaisesTypeError ==
    [][((/\ call'.op = "Polygon.split"
         /\ call'.args[2].cls /= "Curve")
        => (/\ call'.exc = "TypeError"
            /\ call'.msg = "The curve must be a Curve object"
            /\ heap' = heap))
       /\
       ((/\ call'.op = "Polygon.create_intersection_points"
         /\ call'.args[2].cls \notin {"Polygon", "Curve"})
        => (/\ call'.exc = "TypeError"
            /\ call'.msg = "The other object must be a Polygon or a Curve"
            /\ heap' = heap))]_vars

C13_Witness ==
    /\ call.op = "Polygon.create_intersection_points"
    /\ call.args[2].cls = "Point"
    /\ call.exc = "TypeError"
    /\ heap[1].sh_polygon.type = "Polygon"
    /\ heap[1].fill = "True"

-----------------------------------------------------------------------------
(* Claims about the shapes under mutation, checked under SpecMutation. *)

TransformOps == {"Polygon.translate", "Polygon.rotate", "Polygon.scale",
                 "Polygon.skew"}
CenteredOps == {"Polygon.rotate", "Polygon.scale", "Polygon.skew"}

\* C11: translate, rotate, scale and skew replace only the geometry the
\* polygon holds: the other polygon attributes (the six style attributes
\* among them), every other object and the number of vertices are as before
\* the call; and when no center is given to rotate, scale or skew the
\* transform is the one about the centroid the polygon had at the call,
\* that is, it leaves that centroid where it was.
C11_TransformsReplaceOnlyGeometry ==
    [][call'.op \in TransformOps =>
          LET self == call'.args[1]
              center == call'.args[Len(call'.args)]
          IN  /\ heap' = [heap EXCEPT
                            ![self].sh_polygon = heap'[self].sh_polygon]
              /\ \A attr \in StyleAttrs : heap'[self][attr] = heap[self][attr]
              /\ Len(PolygonVertices(heap'[self]))
                   = Len(PolygonVertices(heap[self]))
              /\ (call'.op \in CenteredOps /\ center = <<>>) =>
                     ShCentroid(heap'[self].sh_polygon)
                       = ShCentroid(heap[self].sh_polygon)]_vars

\* C11 witness: the second of two mutations is a rotate, scale or skew
\* without a center, on a polygon whose centroid is not the origin and whose
\* geometry is no longer the one it was constructed with.
C11_Witness ==
    /\ call.op \in CenteredOps
    /\ call.args[Len(call.args)] = <<>>
    /\ mutations = MaxMutations
    /\ ShCentroid(heap[call.args[1]].sh_polygon) /= <<0, 0>>
    /\ \A points \in TransformRings :
          heap[call.args[1]].sh_polygon /= ShPolygonRing(points)

CopyOps == {"Circle.copy", "Rectangle.copy", "Arrow.copy", "Line.copy",
            "Polygon.copy"}
MutatingOps == TransformOps \cup {"setattr", "Polygon.apply_transform"}

\* C12: for every shape kind copy() returns a new object whose attribute
\* values are those of the original at the call, leaving the original as it
\* was; and every later mutation (a transform of a Polygon, an attribute
\* assignment) of the copy or of the original changes that one object only.
C12_CopyIsIndependent ==
    [][/\ call'.op \in CopyOps =>
            LET self == call'.args[1]
                new == call'.ret
            IN  /\ new \notin DOMAIN heap
                /\ DOMAIN heap' = DOMAIN heap \cup {new}
                /\ heap'[new] = heap[self]
                /\ \A a \in DOMAIN heap : heap'[a] = heap[a]
       /\ call'.op \in MutatingOps =>
            /\ DOMAIN heap' = DOMAIN heap
            /\ \A a \in DOMAIN heap \ {call'.args[1]} : heap'[a] = heap[a]]_vars

\* C12 witness: after a copy and two mutations, the last of them made on
\* the copy, the original and the copy differ.
C12_Witness ==
    /\ call.op \in MutatingOps /\ call.exc = "none"
    /\ call.args[1] = Fresh
    /\ mutations = MaxMutations
    /\ heap[1] /= heap[Fresh]

\* the validity a shape is constructed with
ValidShape(o) ==
    /\ o.cls = "Circle" => o.radius > 0
    /\ o.cls = "Rectangle" => o.width > 0 /\ o.height > 0
\* the size and position fields of a Circle or a Rectangle
GeometryFields(o) ==
    IF o.cls = "Circle" THEN <<o.x_center, o.y_center, o.radius>>
    ELSE IF o.cls = "Rectangle"
      THEN <<o.x_bottom_left, o.y_bottom_left, o.width, o.height>>
      ELSE <<>>

C14_ApplyTransformMapsVertices ==
    [][call'.op = "Polygon.apply_transform"
       => (/\ call'.exc = "none"
           /\ PolygonVertices(heap'[call'.args[1]])
                = MatMul(PolygonVertices(heap[call'.args[1]]), call'.args[2]))]_vars

-----------------------------------------------------------------------------
(* Claims about Circle in floating point, checked under SpecFloat. *)

XQueries == {"Circle.get_coordinates_at_x", "Circle.create_points_at_x"}
YQueries == {"Circle.get_coordinates_at_y", "Circle.create_points_at_y"}

\* the outcome C15 gives a query at v on a circle of this centre coordinate
\* and radius, the bounds of the range computed as the code computes them
C15_Outcome(center, radius, v) ==
    LET low == FlSub(center, radius)
        high == FlAdd(center, radius)
    IN  IF v < low \/ v > high
          THEN call.exc = "ValueError"
          ELSE /\ call.exc = "none"
               /\ IF v \in {low, high}
                    THEN Len(call.ret) = 1
                    ELSE Len(call.ret) = 2 /\ call.ret[1] /= call.ret[2]

\* C15: the coordinate queries of Circle raise ValueError exactly when the
\* value is outside [centre - radius, centre + radius]; in range they return
\* two distinct points, and exactly one point at the two ends of the range.
C15_CircleQueriesInRange ==
    /\ call.op \in XQueries
         => C15_Outcome(heap[1].x_center, heap[1].radius, call.args[1])
    /\ call.op \in YQueries
         => C15_Outcome(heap[1].y_center, heap[1].radius, call.args[1])

-----------------------------------------------------------------------------
(* Claims about the gallery build hook, checked under SpecGallery. *)

\* the example scripts of the examples directory
Examples == GlobPy(files, SourceDir)
\* whether a run executed the example: its figure was saved
Executed(fname, log) ==
    \E i \in DOMAIN log : log[i].data = <<ImageDir, PngFile(fname)>>

\* C18: a run of main executes an example only if its RST page does not
\* exist or was modified less recently than the example; a run that follows
\* a run with no example modified in between executes no example, and still
\* rewrites every page and the index.
C18_ExamplesRunOnlyWhenStale ==
    [][call'.op = "main"
       => /\ \A fname \in Examples :
                Executed(fname, axes')
                  <=> LET page == <<TargetDir, RstFileName(fname)>>
                      IN  \/ page \notin DOMAIN files
                          \/ files[page].mtime
                               < files[<<SourceDir, fname>>].mtime
          /\ call.op = "main" => axes' = <<>>
          /\ \A fname \in Examples :
                LET page == <<TargetDir, RstFileName(fname)>>
                    index == <<TargetDir, IndexRst>>
                IN  /\ page \in DOMAIN files'
                    /\ index \in DOMAIN files'
                    /\ files'[page].mtime = files'[index].mtime
                    /\ files'[page].mtime >= Now(files)]_vars

\* a later run skipped an example and rewrote its page
C18_Witness ==
    /\ call.op = "main"
    /\ axes = <<>>
    /\ \E fname \in Examples :
          /\ <<ImageDir, PngFile(fname)>> \in DOMAIN files
          /\ files[<<ImageDir, PngFile(fname)>>].mtime
               < files[<<TargetDir, RstFileName(fname)>>].mtime

\* C19: after main, for every *.py example of the examples directory the
\* target directory holds a copy of the script and an RST page named after
\* it, and index.rst holds exactly one toctree entry and one contents entry
\* per example, in ascending order of the file names; with no example the
\* index is written with an empty toctree and empty contents.
C19_PagesAndIndexWritten ==
    call.op = "main"
      => /\ \A fname \in Examples :
               LET copy == <<TargetDir, fname>>
                   page == <<TargetDir, ModuleName(fname) \o RstExt>>
               IN  /\ copy \in DOMAIN files
                   /\ files[copy].text = files[<<SourceDir, fname>>].text
                   /\ page \in DOMAIN files
                   /\ files[page].text.is = "page"
                   /\ files[page].text.of = ModuleName(fname)
         /\ <<TargetDir, IndexRst>> \in DOMAIN files
         /\ LET index == files[<<TargetDir, IndexRst>>].text
                toctree == index.body.toctree
                contents == index.body.contents
                listed == [i \in DOMAIN toctree |-> toctree[i][2] \o PyExt]
            IN  /\ index.is = "index"
                /\ Len(toctree) = Cardinality(Examples)
                /\ Len(contents) = Cardinality(Examples)
                /\ {listed[i] : i \in DOMAIN listed} = Examples
                /\ \A i, j \in DOMAIN listed :
                      i < j => StrLess(listed[i], listed[j])
                /\ \A i \in DOMAIN contents :
                      contents[i].href = toctree[i][2] \o HtmlExt

-----------------------------------------------------------------------------
(* Claims about containment, checked under SpecContain. *)

SquaredDistance(px, py, qx, qy) == (px - qx) * (px - qx) + (py - qy) * (py - qy)

CenterQueries == {"get_center_coordinates", "create_center_point"}

\* C24: containment is boundary-inclusive: `point in circle` is true exactly
\* when (point.x - x_center)^2 + (point.y - y_center)^2 <= radius^2, `point
\* in rectangle` is true exactly when x_bottom_left <= point.x <=
\* x_bottom_left + width and y_bottom_left <= point.y <= y_bottom_left +
\* height, and the centre returned by get_center_coordinates and
\* create_center_point is contained in its own shape
C24_ContainmentIsBoundaryInclusive ==
    /\ call.op = "Circle.__contains__" =>
          LET c == heap[1]
              p == call.args[1]
          IN  call.ret <=> SquaredDistance(p.x, p.y, c.x_center, c.y_center)
                               <= c.radius * c.radius
    /\ call.op = "Rectangle.__contains__" =>
          LET r == heap[1]
              p == call.args[1]
          IN  call.ret <=> /\ r.x_bottom_left <= p.x
                           /\ p.x <= r.x_bottom_left + r.width
                           /\ r.y_bottom_left <= p.y
                           /\ p.y <= r.y_bottom_left + r.height
    /\ call.op \in {"Circle." \o q : q \in CenterQueries} =>
          CircleContains(heap[1], AsPoint(call.ret))
    /\ call.op \in {"Rectangle." \o q : q \in CenterQueries} =>
          RectangleContains(heap[1], AsPoint(call.ret))

\* a point on the border of a circle, away from its axes, was tested
C24_PointOnTheBorderTested ==
    /\ call.op = "Circle.__contains__"
    /\ call.args[1].x /= heap[1].x_center
    /\ call.args[1].y /= heap[1].y_center
    /\ SquaredDistance(call.args[1].x, call.args[1].y,
                       heap[1].x_center, heap[1].y_center)
           = heap[1].radius * heap[1].radius
    /\ call.ret

-----------------------------------------------------------------------------
(* Claims about arrows and rendering, checked under Spec. *)

\* pointA + shrink * (pointB - pointA), with shrink = o.shrink / ShrinkDen,
\* is the point p
ShrunkFrom(o, from, to, p) ==
    \A i \in 1..2 : ShrinkDen * p[i] = ShrinkDen * from[i] + o.shrink * (to[i] - from[i])

\* C28: Arrow._shrink_points returns newA = pointA + shrink * (pointB -
\* pointA) and newB = pointB + shrink * (pointA - pointB): with shrink = 0
\* the two end points unchanged, with shrink = 0.5 twice the midpoint; no
\* call modifies pointA or pointB; and _plot_element draws from the shrunk
\* points exactly when shrink is not 0
C28_ShrinkPoints ==
    /\ [](call.op = "Arrow._shrink_points" =>
            LET o == heap[1]
            IN  /\ ShrunkFrom(o, o.pointA, o.pointB, call.ret[1])
                /\ ShrunkFrom(o, o.pointB, o.pointA, call.ret[2])
                /\ o.shrink = 0 => call.ret = <<o.pointA, o.pointB>>
                /\ 2 * o.shrink = ShrinkDen =>
                      /\ call.ret[1] = call.ret[2]
                      /\ \A i \in 1..2 :
                            2 * call.ret[1][i] = o.pointA[i] + o.pointB[i])
    /\ []((call.op = "Arrow._plot_element" /\ call.exc = "none") =>
            LET o == heap[1]
                drawn == axes[1].data
            IN  /\ Len(axes) = 1
                /\ ShrunkFrom(o, o.pointB, o.pointA, drawn[1])
                /\ ShrunkFrom(o, o.pointA, o.pointB, drawn[2])
                /\ (drawn = <<o.pointB, o.pointA>>) <=>
                      (o.shrink = 0 \/ o.pointA = o.pointB))
    /\ [][IsArrow(1) => /\ heap'[1].pointA = heap[1].pointA
                        /\ heap'[1].pointB = heap[1].pointB]_vars

\* the end points of an arrow of shrink 0.5 between two distinct points were
\* computed and are one point
C28_ShrunkToTheMidpoint ==
    /\ call.op = "Arrow._shrink_points"
    /\ 2 * heap[1].shrink = ShrinkDen
    /\ heap[1].pointA /= heap[1].pointB
    /\ call.ret[1] = call.ret[2]

\* C26: the placeholder "default" is never forwarded to the drawing backend:
\* no backend call made by _plot_element receives a keyword argument whose
\* value is "default", and the fill is not drawn when fill holds the
\* placeholder
C26_DefaultNeverForwarded ==
    (call.op \in {"Circle._plot_element", "Rectangle._plot_element"}
        /\ call.exc = "none") =>
       /\ \A i \in DOMAIN axes : \A k \in DOMAIN axes[i].kw :
             axes[i].kw[k] /= "default"
       /\ heap[1].fill = "default" =>
             \A i \in DOMAIN axes : axes[i].fn /= "fill_between"

-----------------------------------------------------------------------------
(* Claims about the calls between two polygons, checked under SpecPolygon. *)

\* the geometry shapely computes in the call op
ShapelyResult(op, a, b) ==
    CASE op = "Polygon.create_intersection" -> ShIntersection(a, b)
      [] op = "Polygon.create_union" -> ShUnion(a, b)
      [] op = "Polygon.create_difference" -> ShDifference(a, b)

\* C25: the geometry create_intersection, create_union and create_difference
\* return does not depend on copy_style: on the same operands the call with
\* copy_style=True and the call with copy_style=False both return or both
\* raise, and return the same region (exterior ring and holes).  The call
\* with copy_style=True returns a copy of self holding the geometry shapely
\* computed, and the call with copy_style=False a polygon made from the
\* exterior ring of that geometry: after either call, the other one is to
\* give the same
C25_CopyStyleKeepsTheRegion ==
    call.op \in BoolOps =>
        LET g == ShapelyResult(call.op, heap[call.args[1]].sh_polygon,
                               heap[call.args[2]].sh_polygon)
        IN  IF call.args[3]
              THEN /\ call.exc = "none"
                   /\ HasExterior(heap[call.ret].sh_polygon)
                   /\ ShPolygon(ExteriorCoords(heap[call.ret].sh_polygon))
                        = heap[call.ret].sh_polygon
              ELSE /\ call.exc = "none"
                   /\ heap[call.ret].sh_polygon = g

IntersectionCalls == {"Polygon.get_intersection_coordinates",
                      "Polygon.create_intersection_points"}

\* the grid vertices both borders pass through, and those of them where the
\* borders cross without running along each other
CommonVertices(a, b) ==
    {e \in ShBoundary(a) \cap ShBoundary(b) : e[1] % 2 = 0 /\ e[2] % 2 = 0}
CrossingVertices(a, b) ==
    {e \in CommonVertices(a, b) :
        Nbrs4(e) \cap ShBoundary(a) \cap ShBoundary(b) = {}}

\* C27: get_intersection_coordinates(other) returns the points where the
\* borders of the two polygons cross, and create_intersection_points(other)
\* Points of the same coordinates in the same order; both return, without
\* error, for every pair of polygons: when the borders cross at no point, at
\* exactly one point, or overlap along a segment
C27_IntersectionPointsOfAnyPair ==
    (call.op \in IntersectionCalls /\ IsInstance(call.args[2], "Polygon")) =>
        LET a == heap[call.args[1]].sh_polygon
            b == heap[call.args[2].ref].sh_polygon
            coords == [i \in DOMAIN call.ret |->
                          <<AsPoint(call.ret[i]).x, AsPoint(call.ret[i]).y>>]
            returned == {<<2 * coords[i][1], 2 * coords[i][2]>> : i \in DOMAIN coords}
        IN  /\ call.exc = "none"
            /\ CrossingVertices(a, b) \subseteq returned
            /\ returned \subseteq CommonVertices(a, b)
            /\ coords = CoordinatesOf(returned)

\* C23: a Polygon has a point-containment test as Circle and Rectangle have:
\* for any Polygon and any Point, `point in polygon` returns, without
\* raising, a boolean telling whether the point lies in the region of the
\* polygon
C23_PolygonContainsPoint ==
    call.op = "Polygon.__contains__" =>
        /\ call.exc = "none"
        /\ call.ret \in BOOLEAN
        /\ call.ret <=> <<2 * call.args[2].x, 2 * call.args[2].y>>
                            \in Region(heap[call.args[1]])

-----------------------------------------------------------------------------
(* Curve fitting: FitFromPolynomial (graphinglib/fits.py), as the           *)
(* specification and unit_testing/fits_test.py describe it.                 *)
(*                                                                          *)
(* A Scatter holds its data (x_data, y_data), integers here.  The           *)
(* least-squares solve is the minimiser of the sum of the squared           *)
(* residuals; it is taken on data that a polynomial of the degree fitted    *)
(* goes through, so that the minimiser has integer coefficients.  An entry  *)
(* of the covariance matrix and of the standard deviations is kept as what  *)
(* it is computed from.  The session holds the Scatter at the address 1 and *)
(* the fit made from it at the address 2.                                   *)

\* the coefficients of the polynomials the data are generated by range over
\* -MaxCoef..MaxCoef
MaxCoef == 2
\* the data have NumPoints or NumPoints + 1 points
NumPoints == 4
\* the degrees fitted, those of the unit tests
FitDegrees == {1, 2}

Coefs == -MaxCoef..MaxCoef
\* the abscissas of the data: from 0 on, and around 0
XDataSets == {[i \in 1..NumPoints |-> i - 1], [i \in 1..(NumPoints + 1) |-> i - 3]}
\* the inputs the fitted function is evaluated at, within and past the data
FunctionInputs == (-NumPoints)..(NumPoints + 1)

\* sum(coeff * x**i for i, coeff in enumerate(coeffs)): lowest order first
RECURSIVE PolynomialFunc(_, _)
PolynomialFunc(coeffs, x) ==
    IF coeffs = <<>> THEN 0
    ELSE Head(coeffs) + x * PolynomialFunc(Tail(coeffs), x)

\* seq[::-1]
Reversed(seq) == [i \in 1..Len(seq) |-> seq[Len(seq) + 1 - i]]

\* Scatter(x_data, y_data)
Scatter(x_data, y_data) == [cls |-> "Scatter", x_data |-> x_data, y_data |-> y_data]

\* the sum of the squared residuals of the polynomial p (highest order
\* first, as np.polyfit orders it) on the data
RECURSIVE SquaredResiduals(_, _, _, _)
SquaredResiduals(p, x_data, y_data, i) ==
    IF i > Len(x_data) THEN 0
    ELSE LET r == PolynomialFunc(Reversed(p), x_data[i]) - y_data[i]
         IN  r * r + SquaredResiduals(p, x_data, y_data, i + 1)

\* the coefficient vectors the solve ranges over reach past the generating
\* ones
Candidates(degree) == [1..(degree + 1) -> (-MaxCoef - 1)..(MaxCoef + 1)]

\* the data lie on a polynomial of the degree
Noiseless(x_data, y_data, degree) ==
    \E p \in Candidates(degree) : SquaredResiduals(p, x_data, y_data, 1) = 0

\* np.polyfit(x, y, degree): the least-squares solution, highest order first
NpPolyfit(x_data, y_data, degree) ==
    LET sums == {SquaredResiduals(p, x_data, y_data, 1) : p \in Candidates(degree)}
        least == CHOOSE s \in sums : \A t \in sums : s <= t
    IN  CHOOSE p \in Candidates(degree) :
            SquaredResiduals(p, x_data, y_data, 1) = least

\* np.polyfit(x, y, degree, cov=True): the covariance matrix, of the order
\* of the coefficients: the entry (i, j) of the inverse of the normal
\* matrix, scaled by the residuals over the degrees of freedom
NpPolyfitCov(x_data, y_data, degree) ==
    LET p == NpPolyfit(x_data, y_data, degree)
    IN  [i \in 1..(degree + 1) |-> [j \in 1..(degree + 1) |->
            [entry |-> <<i, j>>,
             resids |-> SquaredResiduals(p, x_data, y_data, 1),
             dof |-> Len(x_data) - (degree + 1)]]]

\* np.flip(matrix): both axes reversed
Flip(matrix) == Reversed([i \in 1..Len(matrix) |-> Reversed(matrix[i])])

\* np.sqrt(np.diag(matrix))
SqrtDiag(matrix) == [i \in 1..Len(matrix) |-> <<"sqrt", matrix[i][i]>>]

FitCoeffs_HighestFirst(x_data, y_data, degree) == NpPolyfit(x_data, y_data, degree)
\* FitFromPolynomial: the coefficients kept, lowest order first
FitCoeffs(x_data, y_data, degree) == Reversed(NpPolyfit(x_data, y_data, degree))

\* FitFromPolynomial(curve_to_be_fit, degree)
FitFromPolynomialObject(scatter, degree) ==
    LET cov_matrix == Flip(NpPolyfitCov(scatter.x_data, scatter.y_data, degree))
    IN  [cls |-> "FitFromPolynomial", degree |-> degree,
         coeffs |-> FitCoeffs(scatter.x_data, scatter.y_data, degree),
         cov_matrix |-> cov_matrix,
         standard_deviation |-> SqrtDiag(cov_matrix)]

IsScatter(a) == a \in DOMAIN heap /\ heap[a].cls = "Scatter"
IsFit(a) == a \in DOMAIN heap /\ heap[a].cls = "FitFromPolynomial"

\* fit = FitFromPolynomial(scatter, degree)
FitFromPolynomialNew(degree) ==
    /\ IsScatter(1) /\ ~IsFit(2)
    /\ Noiseless(heap[1].x_data, heap[1].y_data, degree)
    /\ UNCHANGED <<axes, files, mutations>>
    /\ heap' = heap @@ (2 :> FitFromPolynomialObject(heap[1], degree))
    /\ call' = Returned("FitFromPolynomial", <<1, degree>>, 2)

\* fit.function(x): the closure over the coefficients
FitFunction(x) ==
    /\ IsFit(2)
    /\ UNCHANGED <<heap, axes, files, mutations>>
    /\ call' = Returned("FitFromPolynomial.function", <<x>>,
                        PolynomialFunc(heap[2].coeffs, x))

\* a session starts from a Scatter of the values of a polynomial
InitFit ==
    /\ \E x_data \in XDataSets, degree \in FitDegrees :
          \E coeffs \in [1..(degree + 1) -> Coefs] :
              heap = (1 :> Scatter(x_data, [i \in 1..Len(x_data) |->
                                               PolynomialFunc(coeffs, x_data[i])]))
    /\ call = NoCall
    /\ axes = <<>>
    /\ files = <<>>
    /\ mutations = 0

NextFit ==
    \/ \E degree \in FitDegrees : FitFromPolynomialNew(degree)
    \/ \E x \in FunctionInputs : FitFunction(x)

SpecFit == InitFit /\ [][NextFit]_vars

-----------------------------------------------------------------------------
(* Claims about curve fitting, checked under SpecFit. *)

\* the polynomials of the degree, lowest order first, that the data of the
\* scatter are the values of
Generators(scatter, degree) ==
    {coeffs \in [1..(degree + 1) -> Coefs] :
        \A i \in 1..Len(scatter.x_data) :
            PolynomialFunc(coeffs, scatter.x_data[i]) = scatter.y_data[i]}

\* C21: a FitFromPolynomial of degree n to the noiseless data of a polynomial
\* of degree n recovers the coefficients of that polynomial, n + 1 of them
\* stored lowest order first, with a covariance matrix of shape (n+1, n+1)
\* and standard deviations of shape (n+1,), and the function of the fit
\* evaluates the recovered polynomial at any input
C21_PolynomialFitRecoversCoefficients ==
    IsFit(2) =>
        LET fit == heap[2]
            n == fit.degree
        IN  \A coeffs \in Generators(heap[1], n) :
                /\ fit.coeffs = coeffs
                /\ Len(fit.coeffs) = n + 1
                /\ Len(fit.cov_matrix) = n + 1
                /\ \A i \in 1..(n + 1) : Len(fit.cov_matrix[i]) = n + 1
                /\ Len(fit.standard_deviation) = n + 1
                /\ call.op = "FitFromPolynomial.function" =>
                      call.ret = PolynomialFunc(coeffs, call.args[1])

\* the function of a fit of degree 2, to the data of a polynomial whose
\* coefficients differ from one order to the other, was evaluated past the
\* data
C21_QuadraticRecovered ==
    /\ IsFit(2)
    /\ heap[2].degree = 2
    /\ Generators(heap[1], 2) /= {}
    /\ heap[2].coeffs[1] /= heap[2].coeffs[3]
    /\ heap[2].coeffs[3] /= 0
    /\ call.op = "FitFromPolynomial.function"
    /\ call.args[1] > heap[1].x_data[Len(heap[1].x_data)]

=============================================================================
